---- MODULE Spec2Model ----
(***************************************************************************)
(* Model of deucalion's polling and reconciliation engine:                 *)
(*   - PaginatedIterator and the two requestors (pagination.rs,            *)
(*     aws_poller.rs),                                                     *)
(*   - AwsInstancesPoller::poll, the reconciliation pass (aws_poller.rs),  *)
(*   - AsyncPeriodicRunner, TerminationGuard and main (periodic.rs,        *)
(*     termination.rs, main.rs).                                           *)
(* The specifications share the variables: SpecIter drives one             *)
(* PaginatedIterator, SpecPoll runs passes of the instances poller,        *)
(* SpecRun runs main with the two runners and their worker threads, and    *)
(* SpecRunFair is SpecRun under fair scheduling of the threads.            *)
(***************************************************************************)
EXTENDS Integers, Sequences, FiniteSets, TLC

\* ------------------------------------------------------------------------
\* Bounds
\* ------------------------------------------------------------------------
MaxPages == 3          \* remote calls one iterator may issue
MaxPageLen == 2        \* records in one response (SpecIter)
MaxReservations == 2   \* reservations in one DescribeInstances response
MaxPollPage == 2       \* instances in one response (SpecPoll)
Period == 2            \* the configured polling period, in ticks
MaxElapsed == 3        \* longest duration of one pass, in ticks
MaxMsgLen == 3         \* fragments in the message of a provider error
MaxTags == 2           \* tags of one instance record (SpecLabels)
MaxExpose == 2         \* entries of the expose-list (SpecLabels)

\* ------------------------------------------------------------------------
\* Option<T>: None is the empty sequence, Some(x) the one-element sequence
\* ------------------------------------------------------------------------
None == << >>
Some(x) == << x >>
Unwrap(o) == o[1]
IsNone(o) == o = None
IsSome(o) == o # None

SeqsUpTo(S, n) == UNION { [1..k -> S] : k \in 0..n }

RECURSIVE Concat(_)
Concat(pages) == IF pages = << >> THEN << >> ELSE Head(pages) \o Concat(Tail(pages))

Reverse(s) == [i \in 1..Len(s) |-> s[Len(s) + 1 - i]]

IsPrefix(s, t) == Len(s) <= Len(t) /\ SubSeq(t, 1, Len(s)) = s

VARIABLES
    \* PaginatedIterator and its requestor
    kind,            \* which requestor: "instances" or "spot"
    requestor,       \* [first_chunk, next_token] of the requestor
    current_page,    \* PaginatedIterator.current_page : Option<Vec<Item>>
    query_err,       \* the caller's error slot : Option<Error>
    ipc,             \* SpecIter: position of the consumer of the iterator
    calls,           \* history: remote calls issued by the requestor
    served,          \* history: records the remote has sent so far
    fetched,         \* history: pages next_page() returned as Ok(Some(p))
    fetchErr,        \* history: the error of the failed fetch, if any
    yielded,         \* history: records next() has returned as Some(i)
    emptyCursor      \* history: the last response carried the cursor ""

iterVars == << kind, requestor, current_page, query_err, ipc, calls, served,
               fetched, fetchErr, yielded, emptyCursor >>

VARIABLES
    \* AwsInstancesPoller
    ppc,             \* position inside poll(): "idle", "iter" or "finish", or
                     \* "panicked" once an unwrap() has panicked
    expose_tags,     \* AwsInstancesPoller.expose_tags
    gauges,          \* the gauge family: LabelSet -> value
    current_metrics, \* poll()'s local: LabelSets still to delete
    snapshot,        \* history: LabelSets in the family when the pass began
    observed,        \* history: LabelSets built from records of this pass
    seen,            \* history: ids of the records with tags of this pass
    failed,          \* history: a page fetch of this pass failed
    returned,        \* history: poll() has returned at least once
    dup,             \* history: a LabelSet was upserted more than once in this pass
    untagged         \* history: ids of the records without tags of this pass

pollVars == << ppc, expose_tags, gauges, current_metrics, snapshot, observed,
               seen, failed, returned, dup, untagged >>

VARIABLES
    \* main, TerminationGuard and the interrupt handler
    mpc,             \* position of the main thread
    pollers,         \* what the constructor of each poller returned to main
    listening,       \* the HTTP server: "none", "open" or "closed"
    built,           \* number of runners main has constructed
    dropIdx,         \* number of runners whose Drop has returned
    running,         \* TerminationGuard.running : Mutex<bool>
    guardMutex,      \* holder of the mutex of `running`
    hpc,             \* position of the interrupt handler thread
    \* AsyncPeriodicRunner, one per poller
    wpc,             \* position of the worker thread
    terminate,       \* AsyncPeriodicRunner.terminate : Mutex<bool>
    mutex,           \* holder of the mutex of `terminate`
    elapsed,         \* worker's local: duration of the last pass
    sleep_duration,  \* worker's local: timeout of wait_timeout
    slept,           \* time spent so far in the current wait_timeout
    inflight,        \* history: passes begun and not yet returned
    iterPasses,      \* history: passes begun since wait_timeout last returned
    lastFailed,      \* history: the pass before the sleep in progress ended
                     \* with a page-fetch error
    midPass          \* history: the Drop now blocked in lock() was invoked
                     \* while a pass of its runner was in flight

runVars == << mpc, pollers, listening, built, dropIdx, running, guardMutex, hpc, wpc, terminate,
              mutex, elapsed, sleep_duration, slept, inflight, iterPasses,
              lastFailed, midPass >>

VARIABLES
    \* start-up: error classification and the constructors of the pollers
    probe_err,       \* the provider error handed to the From conversions
    classified,      \* what the two From conversions made of probe_err
    settings,        \* what a constructor was called with and met
    constructed,     \* what the constructor did and returned
    \* the loop body of poll() on one record
    tagged,          \* the record and the expose-list the labels are built from
    labelled,        \* poll()'s local `labels`, or the panic of an unwrap()
    \* EnvConfig
    environ,         \* the process environment: option name -> env::var(name)
    env_config       \* what EnvConfig::new() returned

startVars == << probe_err, classified, settings, constructed, tagged, labelled,
                environ, env_config >>

vars == << iterVars, pollVars, runVars, startVars >>

\* ------------------------------------------------------------------------
\* The remote list RPC
\* ------------------------------------------------------------------------
Tokens == { None, Some(""), Some("t") }

DescribeInstancesErrors ==
    { [variant |-> "HttpDispatch", msg |-> "connection reset"],
      [variant |-> "Unknown", msg |-> "RequestLimitExceeded"] }

OkInstances(reservations, token) ==
    [ok |-> TRUE, reservations |-> reservations, next_token |-> token]
OkSpotPrices(history, token) ==
    [ok |-> TRUE, spot_price_history |-> history, next_token |-> token]
Failed(e) == [ok |-> FALSE, err |-> e]

\* ------------------------------------------------------------------------
\* Requestors
\* ------------------------------------------------------------------------
NewRequestor == [first_chunk |-> TRUE, next_token |-> None]

\* next_page() returns Ok(None) without a remote call in this case
NoFurtherPage(req) == IsNone(req.next_token) /\ ~req.first_chunk

ResultOk(p) == [tag |-> "Ok", val |-> p]
ResultErr(e) == [tag |-> "Err", err |-> e]

\* for r in reservations { if let Some(instances) = r.instances { chunk.append } }
RECURSIVE AppendReservations(_)
AppendReservations(rs) ==
    IF rs = << >> THEN << >>
    ELSE (IF IsSome(Head(rs).instances) THEN Unwrap(Head(rs).instances) ELSE << >>)
         \o AppendReservations(Tail(rs))

Chunk(resp) ==
    IF IsSome(resp.reservations) THEN AppendReservations(Unwrap(resp.reservations))
    ELSE << >>

\* a requestor that calls the remote whether or not a cursor is left
DescribeInstancesRequestor_next_page_unguarded(req, resp) ==
    IF resp.ok
    THEN [requestor |-> [first_chunk |-> FALSE, next_token |-> resp.next_token],
          result |-> ResultOk(Some(Chunk(resp))), called |-> TRUE]
    ELSE [requestor |-> [req EXCEPT !.first_chunk = FALSE],
          result |-> ResultErr(resp.err), called |-> TRUE]

DescribeInstancesRequestor_next_page(req, resp) ==
    IF NoFurtherPage(req)
    THEN [requestor |-> req, result |-> ResultOk(None), called |-> FALSE]
    ELSE IF resp.ok
         THEN [requestor |-> [first_chunk |-> FALSE, next_token |-> resp.next_token],
               result |-> ResultOk(Some(Chunk(resp))), called |-> TRUE]
         ELSE [requestor |-> [req EXCEPT !.first_chunk = FALSE],
               result |-> ResultErr(resp.err), called |-> TRUE]

\* "handle empty next_token"
NormaliseToken(token) ==
    IF IsSome(token) THEN (IF Unwrap(token) = "" THEN None ELSE token) ELSE None

DescribeSpotPricesRequestor_next_page(req, resp) ==
    IF NoFurtherPage(req)
    THEN [requestor |-> req, result |-> ResultOk(None), called |-> FALSE]
    ELSE IF resp.ok
         THEN [requestor |-> [first_chunk |-> FALSE,
                              next_token |-> NormaliseToken(resp.next_token)],
               result |-> ResultOk(resp.spot_price_history), called |-> TRUE]
         ELSE [requestor |-> [req EXCEPT !.first_chunk = FALSE],
               result |-> ResultErr(resp.err), called |-> TRUE]

next_page(k, req, resp) ==
    IF k = "instances" THEN DescribeInstancesRequestor_next_page(req, resp)
    ELSE DescribeSpotPricesRequestor_next_page(req, resp)

\* ------------------------------------------------------------------------
\* PaginatedIterator
\* ------------------------------------------------------------------------
\* advance_page() without the pre-reversal of the fetched page
advance_page_unreversed(np, err) ==
    IF np.result.tag = "Ok"
    THEN IF IsSome(np.result.val)
         THEN [current_page |-> Some(Unwrap(np.result.val)), error |-> err]
         ELSE [current_page |-> None, error |-> err]
    ELSE [current_page |-> None, error |-> Some(np.result.err)]

\* advance_page() that drops the error of a failed fetch
advance_page_swallowing(np, err) ==
    IF np.result.tag = "Ok"
    THEN IF IsSome(np.result.val)
         THEN [current_page |-> Some(Reverse(Unwrap(np.result.val))), error |-> err]
         ELSE [current_page |-> None, error |-> err]
    ELSE [current_page |-> None, error |-> err]

\* advance_page(): the iterator's fields after the call, given what
\* next_page() returned
advance_page(np, err) ==
    IF np.result.tag = "Ok"
    THEN IF IsSome(np.result.val)
         THEN [current_page |-> Some(Reverse(Unwrap(np.result.val))), error |-> err]
         ELSE [current_page |-> None, error |-> err]
    ELSE [current_page |-> None, error |-> Some(np.result.err)]

\* next() has to fetch: current_page is None, or pop() found the page empty
NeedsPage(cp) == IF IsNone(cp) THEN TRUE ELSE Unwrap(cp) = << >>

\* self.current_page.as_mut().unwrap().pop()
PopItem(cp) == Unwrap(cp)[Len(Unwrap(cp))]
PopRest(cp) == Some(SubSeq(Unwrap(cp), 1, Len(Unwrap(cp)) - 1))

\* ------------------------------------------------------------------------
\* SpecIter: one PaginatedIterator consumed to its first None.  The Item
\* type is a parameter of the iterator; here the remote numbers the records
\* it sends 1, 2, 3, ... so that order and multiplicity are observable.
\* ------------------------------------------------------------------------
Items(start, n) == [i \in 1..n |-> start + i]

\* shape of a DescribeInstances response: per reservation the number of
\* instances, or -1 when the reservation has no instances field
ReservationShapes == SeqsUpTo({-1} \cup (0..MaxPageLen), MaxReservations)

RECURSIVE ShapeTotal(_)
ShapeTotal(sh) ==
    IF sh = << >> THEN 0
    ELSE (IF Head(sh) = -1 THEN 0 ELSE Head(sh)) + ShapeTotal(Tail(sh))

RECURSIVE FillReservations(_, _)
FillReservations(sh, start) ==
    IF sh = << >> THEN << >>
    ELSE IF Head(sh) = -1
         THEN << [instances |-> None] >> \o FillReservations(Tail(sh), start)
         ELSE << [instances |-> Some(Items(start, Head(sh)))] >>
              \o FillReservations(Tail(sh), start + Head(sh))

IterResponses(k, start) ==
    IF k = "instances"
    THEN { OkInstances(None, t) : t \in Tokens }
         \cup { OkInstances(Some(FillReservations(sh, start)), t) :
                  sh \in { x \in ReservationShapes : ShapeTotal(x) <= MaxPageLen },
                  t \in Tokens }
         \cup { Failed(e) : e \in DescribeInstancesErrors }
    ELSE { OkSpotPrices(None, t) : t \in Tokens }
         \cup { OkSpotPrices(Some(Items(start, n)), t) : n \in 0..MaxPageLen, t \in Tokens }
         \cup { Failed(e) : e \in DescribeInstancesErrors }

\* number of records a response carries
Carried(k, resp) ==
    IF ~resp.ok THEN 0
    ELSE IF k = "instances" THEN Len(Chunk(resp))
    ELSE IF IsSome(resp.spot_price_history) THEN Len(Unwrap(resp.spot_price_history))
    ELSE 0

NoResponse == Failed("not called")

IterIdle ==
    /\ requestor = NewRequestor
    /\ current_page = None
    /\ query_err = None
    /\ ipc = "next"
    /\ calls = 0
    /\ served = 0
    /\ fetched = << >>
    /\ fetchErr = None
    /\ yielded = << >>
    /\ emptyCursor = FALSE

\* the poller before its first pass: GaugeVec::new() has no series
PollIdle ==
    /\ ppc = "idle"
    /\ expose_tags = << "team" >>
    /\ gauges = << >>
    /\ current_metrics = {}
    /\ snapshot = {}
    /\ observed = {}
    /\ seen = {}
    /\ failed = FALSE
    /\ returned = FALSE
    /\ dup = FALSE
    /\ untagged = {}

Runners == {"instances", "spot"}

\* main before it constructs the pollers: no server, no thread, no mutex
\* exists yet
RunIdle ==
    /\ mpc = "pollers"
    /\ pollers = [k \in Runners |-> "none"]
    /\ listening = "none"
    /\ built = 0
    /\ dropIdx = 0
    /\ running = TRUE
    /\ guardMutex = "none"
    /\ hpc = "unset"
    /\ wpc = [r \in Runners |-> "unspawned"]
    /\ terminate = [r \in Runners |-> FALSE]
    /\ mutex = [r \in Runners |-> "none"]
    /\ elapsed = [r \in Runners |-> 0]
    /\ sleep_duration = [r \in Runners |-> 0]
    /\ slept = [r \in Runners |-> 0]
    /\ inflight = [r \in Runners |-> 0]
    /\ iterPasses = [r \in Runners |-> 0]
    /\ lastFailed = [r \in Runners |-> FALSE]
    /\ midPass = FALSE

\* nothing has been classified or constructed
StartIdle ==
    /\ probe_err = None
    /\ classified = None
    /\ settings = None
    /\ constructed = None
    /\ tagged = None
    /\ labelled = None
    /\ environ = None
    /\ env_config = None

IterInit ==
    /\ kind \in {"instances", "spot"}
    /\ IterIdle
    /\ PollIdle
    /\ RunIdle
    /\ StartIdle

\* next(): the part that calls advance_page(); the iterator returns None when
\* current_page is None afterwards and goes on to pop() otherwise
FetchStep(resp) ==
    LET np == next_page(kind, requestor, resp)
        it == advance_page(np, query_err)
    IN  /\ requestor' = np.requestor
        /\ current_page' = it.current_page
        /\ query_err' = it.error
        /\ calls' = calls + (IF np.called THEN 1 ELSE 0)
        /\ served' = served + (IF np.called THEN Carried(kind, resp) ELSE 0)
        /\ fetched' = IF np.result.tag = "Ok" /\ IsSome(np.result.val)
                      THEN Append(fetched, Unwrap(np.result.val)) ELSE fetched
        /\ fetchErr' = IF np.result.tag = "Err" THEN Some(np.result.err) ELSE fetchErr
        /\ emptyCursor' = IF ~np.called THEN emptyCursor
                          ELSE IF resp.ok THEN resp.next_token = Some("") ELSE FALSE
        /\ ipc' = IF IsNone(it.current_page) THEN "none" ELSE "next"

IterFetch ==
    /\ ipc = "next"
    /\ NeedsPage(current_page)
    /\ IF NoFurtherPage(requestor)
       THEN FetchStep(NoResponse)
       ELSE /\ calls < MaxPages
            /\ \E resp \in IterResponses(kind, served) : FetchStep(resp)
    /\ UNCHANGED << kind, yielded, pollVars, runVars, startVars >>

\* next(): pop() found a record, next() returns Some(i)
IterYield ==
    /\ ipc = "next"
    /\ ~NeedsPage(current_page)
    /\ yielded' = Append(yielded, PopItem(current_page))
    /\ current_page' = PopRest(current_page)
    /\ UNCHANGED << kind, requestor, query_err, ipc, calls, served, fetched, fetchErr,
                    emptyCursor, pollVars, runVars, startVars >>

IterNext == IterFetch \/ IterYield

SpecIter == IterInit /\ [][IterNext]_vars

\* C4 (pagination termination): when the requestor returned pages P1..Pn and
\* then reported no further page, the iterator consumed to its first None has
\* yielded exactly P1 ++ ... ++ Pn, each record once and in the original
\* order, and the caller's error slot is empty.
PaginationTermination ==
    (ipc = "none" /\ IsNone(fetchErr)) =>
        (yielded = Concat(fetched) /\ IsNone(query_err))

PaginationTerminationWitness ==
    /\ ipc = "none"
    /\ IsNone(fetchErr)
    /\ Len(fetched) = 3
    /\ fetched[1] = << >>
    /\ Len(fetched[2]) = 2
    /\ Len(yielded) = 3

\* C5 (pagination abort): when the fetch of page k fails the iterator has
\* yielded exactly the records of pages 1..k-1 in order, returns None, and the
\* error slot holds that fetch's error; at no time has a record been yielded
\* that is not part of a completely fetched page.
PaginationAbort ==
    /\ IsPrefix(yielded, Concat(fetched))
    /\ (ipc = "none" /\ IsSome(fetchErr)) =>
           (yielded = Concat(fetched) /\ query_err = fetchErr)

PaginationAbortWitness ==
    /\ ipc = "none"
    /\ IsSome(fetchErr)
    /\ Len(fetched) = 2
    /\ Len(yielded) = 3
    /\ calls = 3

\* C18 (empty-cursor normalisation): after a response whose cursor is the
\* empty string the next next_page() of either requestor returns Ok(None)
\* without a remote call.
EmptyCursorNormalised ==
    emptyCursor =>
        \A resp \in IterResponses(kind, served) :
            LET np == next_page(kind, requestor, resp)
            IN  /\ ~np.called
                /\ np.result.tag = "Ok"
                /\ IF np.result.tag = "Ok" THEN IsNone(np.result.val) ELSE FALSE

\* C27 (remote calls per pass): a remote call is issued only by a next()
\* that finds every record of the pages fetched so far consumed, and only
\* when it is the first call or the requestor holds the cursor of the
\* previous response; no call is issued once a response came without cursor
\* or a call failed; an instances pass that ends without error has made one
\* call per page, one that fails on page k has made k calls (a spot-prices
\* pass makes at most one call more than it got pages, and exactly k when it
\* fails on page k).
RemoteCallsPerPass ==
    /\ [][calls' # calls =>
            /\ calls' = calls + 1
            /\ yielded = Concat(fetched)
            /\ (requestor.first_chunk \/ IsSome(requestor.next_token))
            /\ (calls = 0) = requestor.first_chunk
            /\ IsNone(fetchErr)]_vars
    /\ [](NoFurtherPage(requestor) => ~ENABLED (IterFetch /\ calls' # calls))
    /\ [](IsSome(fetchErr) => ipc = "none")
    /\ []((ipc = "none" /\ IsNone(fetchErr)) =>
             IF kind = "instances" THEN calls = Len(fetched)
             ELSE calls \in {Len(fetched), Len(fetched) + 1})
    /\ []((ipc = "none" /\ IsSome(fetchErr)) => calls = Len(fetched) + 1)

RemoteCallsPerPassWitness ==
    /\ kind = "instances"
    /\ ipc = "none"
    /\ IsSome(fetchErr)
    /\ calls = 3
    /\ Len(fetched) = 2
    /\ Len(yielded) >= 2

\* C32 (pages without records do not end the sequence) as stated: for both
\* requestors a remote call that succeeds and leaves a cursor in the
\* requestor but brings no record (an empty list, or for spot prices an
\* absent list) is not followed by None: next() goes on to the next page, so
\* an iteration that ends without an error has no cursor left.
EmptyPagesSkipped ==
    /\ [][(calls' = calls + 1 /\ IsNone(fetchErr') /\ served' = served
             /\ IsSome(requestor'.next_token)) => ipc' = "next"]_vars
    /\ []((ipc = "none" /\ IsNone(fetchErr)) => NoFurtherPage(requestor))

\* next() called again on an iterator that has returned None: current_page
\* is None, so next() calls advance_page()
IterAgain ==
    /\ ipc = "none"
    /\ IF NoFurtherPage(requestor)
       THEN FetchStep(NoResponse)
       ELSE /\ calls < MaxPages
            /\ \E resp \in IterResponses(kind, served) : FetchStep(resp)
    /\ UNCHANGED << kind, yielded, pollVars, runVars, startVars >>

\* one PaginatedIterator whose consumer goes on calling next() after None
SpecIterAgain == IterInit /\ [][IterNext \/ IterAgain]_vars

\* C29 (single-pass iterator) as stated: once next() has returned None every
\* later call of next() returns None again, yields no record, issues no
\* remote call and leaves the error slot as it is.
SinglePassIterator ==
    [][ipc = "none" =>
          (ipc' = "none" /\ calls' = calls /\ yielded' = yielded
             /\ query_err' = query_err)]_vars

\* ------------------------------------------------------------------------
\* AwsInstancesPoller
\* ------------------------------------------------------------------------
Ids == {"i-A", "i-B"}
InstanceTypes == {"t2.micro", "m4.large"}
TagLists == { None, Some(<< [key |-> Some("Team"), value |-> Some("x")] >>) }

\* the instance types a response reports for an id: i-A is seen with either
\* type, i-B with one
TypesOf(id) == IF id = "i-A" THEN InstanceTypes ELSE {"t2.micro"}

Instances ==
    { i \in [ instance_id : {Some(id) : id \in Ids},
              placement : {Some([availability_zone |-> Some("us-east-1a")])},
              platform : {None},
              instance_type : {Some(t) : t \in InstanceTypes},
              instance_lifecycle : {None},
              tags : TagLists ] :
        Unwrap(i.instance_type) \in TypesOf(Unwrap(i.instance_id)) }

\* a record that has tags and a placement without availability zone
IncompleteInstances ==
    { [ instance_id |-> Some("i-B"),
        placement |-> Some([availability_zone |-> None]),
        platform |-> None,
        instance_type |-> Some("t2.micro"),
        instance_lifecycle |-> None,
        tags |-> Some(<< [key |-> Some("Team"), value |-> Some("x")] >>) ] }

\* the records a DescribeInstances response may carry
Records == Instances \cup IncompleteInstances

\* str::to_ascii_lowercase on the strings the model uses
ToAsciiLower(str) ==
    CASE str = "Team" -> "team"
      [] str = "TEAM" -> "team"
      [] str = "Owner" -> "owner"
      [] OTHER -> str

\* a comparison that tells upper case from lower case
eq_ignore_ascii_case_exact(a, b) == a = b

eq_ignore_ascii_case(a, b) == ToAsciiLower(a) = ToAsciiLower(b)

unwrap_or(o, default) == IF IsSome(o) THEN Unwrap(o) ELSE default

\* find(): the index of the tag at which the search from tag i on stops, a
\* tag whose key matches or a tag without key, on which unwrap() panics;
\* 0 when it reaches the end of the list
RECURSIVE FindStop(_, _, _)
FindStop(tags, e, i) ==
    IF i > Len(tags) THEN 0
    ELSE IF IsNone(tags[i].key) THEN i
    ELSE IF eq_ignore_ascii_case(e, Unwrap(tags[i].key)) THEN i
    ELSE FindStop(tags, e, i + 1)

\* the closure of find() or the unwrap() of the value found panics
ExposePanics(tags, e) ==
    LET i == FindStop(tags, e, 1)
    IN  IF i = 0 THEN FALSE
        ELSE IsNone(tags[i].key) \/ IsNone(tags[i].value)

\* tags.iter().find(|&t| e.eq_ignore_ascii_case(t.key.as_ref().unwrap()))
FindTag(tags, e) ==
    LET i == FindStop(tags, e, 1)
    IN  IF i = 0 THEN None ELSE Some(tags[i])

ExposeLabel(tags, e) ==
    LET ft == FindTag(tags, e)
    IN  IF IsSome(ft) THEN << e, Unwrap(Unwrap(ft).value) >> ELSE << e, "" >>

\* the `labels` vector poll() builds for an instance that has tags
BuildLabels(instance, expose) ==
    << << "id", Unwrap(instance.instance_id) >>,
       << "availability_zone", Unwrap(Unwrap(instance.placement).availability_zone) >>,
       << "platform", unwrap_or(instance.platform, "linux") >>,
       << "type", Unwrap(instance.instance_type) >>,
       << "lifecycle", unwrap_or(instance.instance_lifecycle, "ondemand") >> >>
    \o [i \in 1..Len(expose) |-> ExposeLabel(Unwrap(instance.tags), expose[i])]

\* an unwrap() in the construction of `labels` panics
LabelPanics(instance, expose) ==
    \/ IsNone(instance.instance_id)
    \/ IsNone(instance.placement)
    \/ (IF IsSome(instance.placement)
        THEN IsNone(Unwrap(instance.placement).availability_zone) ELSE FALSE)
    \/ IsNone(instance.instance_type)
    \/ \E i \in DOMAIN expose : ExposePanics(Unwrap(instance.tags), expose[i])

\* to_hashmap(): collecting pairs into a HashMap keeps the last value of a key
to_hashmap(labels) ==
    [ n \in { labels[i][1] : i \in DOMAIN labels } |->
        labels[CHOOSE i \in DOMAIN labels :
                 /\ labels[i][1] = n
                 /\ \A j \in DOMAIN labels : labels[j][1] = n => j <= i][2] ]

\* an upsert that first removes the other series of the same id
GaugeSet_replacing(g, key, v) ==
    [ k \in { m \in DOMAIN g : m["id"] # key["id"] } \cup {key} |->
        IF k = key THEN v ELSE g[k] ]

\* an upsert that adds to the value of an existing series
GaugeSet_adding(g, key, v) ==
    [ k \in DOMAIN g \cup {key} |->
        IF k # key THEN g[k] ELSE IF key \in DOMAIN g THEN g[key] + v ELSE v ]

\* gauges.get_metric_with(labels).set(v)
GaugeSet(g, key, v) == [ k \in DOMAIN g \cup {key} |-> IF k = key THEN v ELSE g[k] ]

\* gauges.remove(labels) for every element of a set of LabelSets
GaugeRemoveAll(g, keys) == [ k \in DOMAIN g \ keys |-> g[k] ]

\* retain() with the predicate inverted: keeps the observed id
Retain_inverted(cm, id) == { m \in cm : m["id"] = id }

\* current_metrics.retain(|m| m["id"] != id)
Retain(cm, id) == { m \in cm : m["id"] # id }

\* the end of poll() deleting whether or not the error slot is set
CommitOrAbort_ignoring_error(g, cm, qe) == GaugeRemoveAll(g, cm)

\* the end of poll(): delete what is left in current_metrics unless the
\* error slot is set
CommitOrAbort(g, cm, qe) == IF IsSome(qe) THEN g ELSE GaugeRemoveAll(g, cm)

\* the ids of a set of LabelSets
IdsOf(keys) == { m["id"] : m \in keys }

PollResponses ==
    { OkInstances(Some(<< [instances |-> Some(page)] >>), t) :
        page \in SeqsUpTo(Records, MaxPollPage), t \in Tokens }
    \cup { Failed(e) : e \in DescribeInstancesErrors }

\* poll() up to the construction of the iterator; current_metrics is a Vec
\* of distinct LabelSets of which only the membership is used
PollBegin ==
    /\ ppc = "idle"
    /\ current_metrics' = DOMAIN gauges
    /\ query_err' = None
    /\ requestor' = NewRequestor
    /\ current_page' = None
    /\ snapshot' = DOMAIN gauges
    /\ observed' = {}
    /\ seen' = {}
    /\ failed' = FALSE
    /\ dup' = FALSE
    /\ untagged' = {}
    /\ ppc' = "iter"
    /\ UNCHANGED << kind, ipc, calls, served, fetched, fetchErr, yielded, emptyCursor,
                    expose_tags, gauges, returned, runVars, startVars >>

PollFetchStep(resp) ==
    LET np == next_page(kind, requestor, resp)
        it == advance_page(np, query_err)
    IN  /\ requestor' = np.requestor
        /\ current_page' = it.current_page
        /\ query_err' = it.error
        /\ failed' = (failed \/ np.result.tag = "Err")
        /\ ppc' = IF IsNone(it.current_page) THEN "finish" ELSE "iter"

\* `for instance in di`: next() has to fetch a page
PollFetch ==
    /\ ppc = "iter"
    /\ NeedsPage(current_page)
    /\ IF NoFurtherPage(requestor)
       THEN PollFetchStep(NoResponse)
       ELSE \E resp \in PollResponses : PollFetchStep(resp)
    /\ UNCHANGED << kind, ipc, calls, served, fetched, fetchErr, yielded, emptyCursor,
                    expose_tags, gauges, current_metrics, snapshot, observed,
                    seen, returned, dup, untagged, runVars, startVars >>

\* a loop body that treats a record without tags as observed
PollBody_retaining_untagged ==
    /\ ppc = "iter"
    /\ ~NeedsPage(current_page)
    /\ current_page' = PopRest(current_page)
    /\ LET instance == PopItem(current_page)
           id == Unwrap(instance.instance_id)
       IN  IF IsSome(instance.tags)
           THEN IF LabelPanics(instance, expose_tags)
                THEN /\ ppc' = "panicked"
                     /\ current_metrics' = {}
                     /\ UNCHANGED << gauges, observed, seen, dup, untagged >>
                ELSE LET key == to_hashmap(BuildLabels(instance, expose_tags))
                     IN  /\ current_metrics' = Retain(current_metrics, id)
                         /\ gauges' = GaugeSet(gauges, key, 1)
                         /\ observed' = observed \cup {key}
                         /\ seen' = seen \cup {id}
                         /\ dup' = (dup \/ key \in observed)
                         /\ UNCHANGED << ppc, untagged >>
           ELSE /\ current_metrics' = Retain(current_metrics, id)
                /\ untagged' = untagged \cup ({id} \cap IdsOf(snapshot))
                /\ UNCHANGED << ppc, gauges, observed, seen, dup >>
    /\ UNCHANGED << kind, requestor, query_err, ipc, calls, served, fetched,
                    fetchErr, yielded, emptyCursor, expose_tags, snapshot, failed,
                    returned,
                    runVars, startVars >>

\* `for instance in di`: next() returns a record and the loop body runs; an
\* unwrap() of a missing attribute panics, the locals of poll() are dropped
\* and poll() does not return
PollBody ==
    /\ ppc = "iter"
    /\ ~NeedsPage(current_page)
    /\ current_page' = PopRest(current_page)
    /\ LET instance == PopItem(current_page)
       IN  IF IsSome(instance.tags)
           THEN IF LabelPanics(instance, expose_tags)
                THEN /\ ppc' = "panicked"
                     /\ current_metrics' = {}
                     /\ UNCHANGED << gauges, observed, seen, dup, untagged >>
                ELSE LET id == Unwrap(instance.instance_id)
                         key == to_hashmap(BuildLabels(instance, expose_tags))
                     IN  /\ current_metrics' = Retain(current_metrics, id)
                         /\ gauges' = GaugeSet(gauges, key, 1)
                         /\ observed' = observed \cup {key}
                         /\ seen' = seen \cup {id}
                         /\ dup' = (dup \/ key \in observed)
                         /\ UNCHANGED << ppc, untagged >>
           ELSE /\ untagged' = untagged \cup
                                 ({Unwrap(instance.instance_id)} \cap IdsOf(snapshot))
                /\ UNCHANGED << ppc, current_metrics, gauges, observed, seen, dup >>
    /\ UNCHANGED << kind, requestor, query_err, ipc, calls, served, fetched,
                    fetchErr, yielded, emptyCursor, expose_tags, snapshot, failed,
                    returned,
                    runVars, startVars >>

\* poll() after the loop
PollFinish ==
    /\ ppc = "finish"
    /\ gauges' = CommitOrAbort(gauges, current_metrics, query_err)
    /\ current_metrics' = {}
    /\ query_err' = None
    /\ requestor' = NewRequestor
    /\ current_page' = None
    /\ returned' = TRUE
    /\ ppc' = "idle"
    /\ UNCHANGED << kind, ipc, calls, served, fetched, fetchErr, yielded, emptyCursor,
                    expose_tags, snapshot, observed, seen, failed, dup, untagged,
                    runVars, startVars >>

PollInit ==
    /\ kind = "instances"
    /\ IterIdle
    /\ PollIdle
    /\ RunIdle
    /\ StartIdle

PollNext == PollBegin \/ PollFetch \/ PollBody \/ PollFinish

SpecPoll == PollInit /\ [][PollNext]_vars

\* C1 (safe deletion on commit): after a pass without page-fetch error every
\* series of the pre-pass snapshot whose id was not observed (with tags) is
\* gone, every observed id has a series, and the ids left are exactly the
\* observed ones.
SafeDeletionOnCommit ==
    (ppc = "idle" /\ returned /\ ~failed) =>
        /\ \A m \in snapshot : m["id"] \notin seen => m \notin DOMAIN gauges
        /\ \A id \in seen : \E m \in DOMAIN gauges : m["id"] = id
        /\ IdsOf(DOMAIN gauges) = seen

SafeDeletionOnCommitWitness ==
    /\ ppc = "idle" /\ returned /\ ~failed
    /\ IdsOf(snapshot) = Ids
    /\ seen = {"i-A"}
    /\ IdsOf(DOMAIN gauges) = {"i-A"}

\* C2 (safe deletion on abort): after a pass in which a page fetch failed no
\* series has been removed: the family is the pre-pass snapshot plus the
\* series upserted from the pages fetched before the failure.
SafeDeletionOnAbort ==
    (ppc = "idle" /\ returned /\ failed) =>
        /\ snapshot \subseteq DOMAIN gauges
        /\ DOMAIN gauges = snapshot \cup observed

SafeDeletionOnAbortWitness ==
    /\ ppc = "idle" /\ returned /\ failed
    /\ IdsOf(snapshot) = Ids
    /\ seen = {"i-A"}
    /\ observed \ snapshot # {}
    /\ IdsOf(DOMAIN gauges) = Ids

\* C3 (gauge family mirrors the last successful pass): after a pass without
\* page-fetch error the family holds a series for a LabelSet if and only if a
\* record of that pass produced exactly that LabelSet.
MirrorsLastSuccessfulPass ==
    (ppc = "idle" /\ returned /\ ~failed) => DOMAIN gauges = observed

\* C12 (idempotent upsert): every series of the family has the value 1, also
\* the series of a LabelSet whose record was delivered more than once within
\* the pass, and every LabelSet built in the pass has its series as long as
\* the pass runs.
IdempotentUpsert ==
    /\ \A m \in DOMAIN gauges : gauges[m] = 1
    /\ ppc \in {"iter", "finish"} => observed \subseteq DOMAIN gauges

IdempotentUpsertWitness ==
    /\ ppc = "idle" /\ returned /\ ~failed
    /\ dup
    /\ snapshot = {}
    /\ Cardinality(observed) = 1
    /\ DOMAIN gauges = observed
    /\ \A m \in observed : gauges[m] = 1

\* C19 (record without tags): a record without tags changes neither the
\* family nor the deletion list nor the observed ids; after a pass without
\* page-fetch error no series is left for an id that the pass returned only
\* without tags, also when the pre-pass snapshot had one.
UntaggedSkipped ==
    /\ [][(ppc = "iter" /\ ~NeedsPage(current_page)
             /\ IsNone(PopItem(current_page).tags)) =>
              UNCHANGED << gauges, current_metrics, observed, seen >>]_vars
    /\ []((ppc = "idle" /\ returned /\ ~failed) =>
              \A id \in untagged \ seen : id \notin IdsOf(DOMAIN gauges))

UntaggedSkippedWitness ==
    /\ ppc = "idle" /\ returned /\ ~failed
    /\ "i-A" \in untagged \ seen
    /\ "i-A" \in IdsOf(snapshot)
    /\ "i-A" \notin IdsOf(DOMAIN gauges)
    /\ seen = {"i-B"}

\* C24 (records lacking a required attribute) as stated: a record that has
\* tags but lacks an attribute the labels are built from is skipped: the loop
\* body leaves the family, the deletion list and the observed ids as they are
\* and the pass goes on to the next record.
IncompleteSkipped ==
    [][(ppc = "iter" /\ ~NeedsPage(current_page)
          /\ IsSome(PopItem(current_page).tags)
          /\ LabelPanics(PopItem(current_page), expose_tags)) =>
            (ppc' = "iter" /\ UNCHANGED << gauges, current_metrics, observed, seen >>)]_vars

\* C30 (deletion only at commit): a series leaves the family only in the step
\* that ends a pass whose iterator was drained with the error slot empty; so
\* at every point of a pass the family holds every series of the pre-pass
\* snapshot, and a series of the snapshot that the pass observes again with
\* the same labels is in the family during the pass and after it.
DeletionOnlyAtCommit ==
    /\ [][~(DOMAIN gauges \subseteq DOMAIN gauges') =>
            (ppc = "finish" /\ NeedsPage(current_page) /\ IsNone(query_err)
               /\ ~failed /\ ppc' = "idle")]_vars
    /\ [](ppc \in {"iter", "finish", "panicked"} => snapshot \subseteq DOMAIN gauges)
    /\ [](\A m \in snapshot \cap observed : m \in DOMAIN gauges)

DeletionOnlyAtCommitWitness ==
    /\ ppc = "idle" /\ returned /\ ~failed
    /\ \E m \in snapshot \cap observed : m \in DOMAIN gauges
    /\ \E m \in snapshot : m \notin DOMAIN gauges

\* ------------------------------------------------------------------------
\* AwsSpotPricesPoller
\* ------------------------------------------------------------------------
ProductDescriptions == {"Linux/UNIX", "Windows", "SUSE Linux"}

\* the records of a DescribeSpotPriceHistory response; one of them lacks its
\* instance type
SpotPrices ==
    [ availability_zone : {Some("us-east-1a")},
      product_description : {Some(p) : p \in ProductDescriptions},
      instance_type : {Some("t2.micro")} ]
    \cup { [ availability_zone |-> Some("us-east-1a"),
             product_description |-> Some("Windows"),
             instance_type |-> None ] }

\* AwsSpotPricesPoller::product_to_platform
product_to_platform(product) ==
    CASE product = "Linux/UNIX" -> Some("linux")
      [] product = "Windows" -> Some("windows")
      [] OTHER -> None

\* the `labels` vector of the spot-prices poll() for one record
SpotLabels(sp) ==
    << << "availability_zone", Unwrap(sp.availability_zone) >>,
       << "platform", unwrap_or(product_to_platform(Unwrap(sp.product_description)), "") >>,
       << "type", Unwrap(sp.instance_type) >> >>

\* an unwrap() in the construction of `labels` panics
SpotLabelPanics(sp) ==
    \/ IsNone(sp.availability_zone)
    \/ IsNone(sp.product_description)
    \/ IsNone(sp.instance_type)

SpotResponses ==
    { OkSpotPrices(None, t) : t \in Tokens }
    \cup { OkSpotPrices(Some(page), t) :
             page \in SeqsUpTo(SpotPrices, MaxPollPage), t \in Tokens }
    \cup { Failed(e) : e \in DescribeInstancesErrors }

\* poll() up to the construction of the iterator; the spot-prices poller
\* takes no snapshot of its family
SpotBegin ==
    /\ ppc = "idle"
    /\ query_err' = None
    /\ requestor' = NewRequestor
    /\ current_page' = None
    /\ snapshot' = DOMAIN gauges
    /\ observed' = {}
    /\ failed' = FALSE
    /\ ppc' = "iter"
    /\ UNCHANGED << kind, ipc, calls, served, fetched, fetchErr, yielded, emptyCursor,
                    expose_tags, gauges, current_metrics, seen, returned, dup,
                    untagged, runVars, startVars >>

\* `for sp in spot_prices_iterator`: next() has to fetch a page
SpotFetch ==
    /\ ppc = "iter"
    /\ NeedsPage(current_page)
    /\ IF NoFurtherPage(requestor)
       THEN PollFetchStep(NoResponse)
       ELSE \E resp \in SpotResponses : PollFetchStep(resp)
    /\ UNCHANGED << kind, ipc, calls, served, fetched, fetchErr, yielded, emptyCursor,
                    expose_tags, gauges, current_metrics, snapshot, observed,
                    seen, returned, dup, untagged, runVars, startVars >>

\* `for sp in spot_prices_iterator`: next() returns a record and the loop
\* body runs
SpotBody ==
    /\ ppc = "iter"
    /\ ~NeedsPage(current_page)
    /\ current_page' = PopRest(current_page)
    /\ LET sp == PopItem(current_page)
       IN  IF SpotLabelPanics(sp)
           THEN /\ ppc' = "panicked"
                /\ UNCHANGED << gauges, observed, dup >>
           ELSE LET key == to_hashmap(SpotLabels(sp))
                IN  /\ gauges' = GaugeSet(gauges, key, 1)
                    /\ observed' = observed \cup {key}
                    /\ dup' = (dup \/ key \in observed)
                    /\ UNCHANGED ppc
    /\ UNCHANGED << kind, requestor, query_err, ipc, calls, served, fetched,
                    fetchErr, yielded, emptyCursor, expose_tags, current_metrics,
                    snapshot, seen, failed, returned, untagged,
                    runVars, startVars >>

\* poll() after the loop: query_err goes out of scope, nothing else is done
SpotFinish ==
    /\ ppc = "finish"
    /\ query_err' = None
    /\ requestor' = NewRequestor
    /\ current_page' = None
    /\ returned' = TRUE
    /\ dup' = FALSE
    /\ ppc' = "idle"
    /\ UNCHANGED << kind, ipc, calls, served, fetched, fetchErr, yielded, emptyCursor,
                    expose_tags, gauges, current_metrics, snapshot, observed, seen,
                    failed, untagged, runVars, startVars >>

SpotInit ==
    /\ kind = "spot"
    /\ IterIdle
    /\ PollIdle
    /\ RunIdle
    /\ StartIdle

SpotNext == SpotBegin \/ SpotFetch \/ SpotBody \/ SpotFinish

SpecSpot == SpotInit /\ [][SpotNext]_vars

\* C25 (spot-price poller reconciliation) as stated: after a pass without
\* page-fetch error every series that was in the family before the pass and
\* was not re-observed during the pass has been removed.
SpotReconciliation ==
    (ppc = "idle" /\ returned /\ ~failed) =>
        \A m \in snapshot : m \notin observed => m \notin DOMAIN gauges

\* ------------------------------------------------------------------------
\* AwsPollerError and the From conversions
\* ------------------------------------------------------------------------
\* a String is a sequence of fragments of text; no fragment overlaps a marker
Fragments ==
    {"DryRunOperation", "UnauthorizedOperation", "AuthFailure", "dryrunoperation",
     "RequestLimitExceeded"}
Messages == SeqsUpTo(Fragments, MaxMsgLen)

\* str::contains(): pat occurs in str as a contiguous piece
contains(str, pat) ==
    \E i \in 1..(Len(str) + 1 - Len(pat)) : SubSeq(str, i, i + Len(pat) - 1) = pat

InvalidCredentials(m) == << "InvalidCredentials", m >>
InsufficientPermissions(m) == << "InsufficientPermissions", m >>
BadRegion(m) == << "BadRegion", m >>
NetworkError(m) == << "NetworkError", m >>
UnknownError(m) == << "UnknownError", m >>
NoError == << "NoError" >>

\* the errors of ec2::DescribeInstancesError and of
\* ec2::DescribeSpotPriceHistoryError, which have the same four variants
ProviderErrors ==
    { [variant |-> v, msg |-> m] : v \in {"Validation", "Unknown"}, m \in Messages }
    \cup { [variant |-> "HttpDispatch", msg |-> << "connection reset" >>],
           [variant |-> "Credentials", msg |-> << "no credentials" >>] }

\* a conversion that tests the authentication marker before the
\* authorization marker
From_DescribeInstancesError_reordered(e) ==
    CASE e.variant = "HttpDispatch" -> NetworkError(e.msg)
      [] e.variant = "Credentials" -> InvalidCredentials(e.msg)
      [] e.variant = "Validation" -> InvalidCredentials(e.msg)
      [] e.variant = "Unknown" ->
           IF contains(e.msg, << "DryRunOperation" >>) THEN NoError
           ELSE IF contains(e.msg, << "AuthFailure" >>) THEN InvalidCredentials(e.msg)
           ELSE IF contains(e.msg, << "UnauthorizedOperation" >>)
                THEN InsufficientPermissions(<< "DescribeInstances" >>)
           ELSE UnknownError(e.msg)

\* impl From<ec2::DescribeInstancesError> for AwsPollerError
From_DescribeInstancesError(e) ==
    CASE e.variant = "HttpDispatch" -> NetworkError(e.msg)
      [] e.variant = "Credentials" -> InvalidCredentials(e.msg)
      [] e.variant = "Validation" -> InvalidCredentials(e.msg)
      [] e.variant = "Unknown" ->
           IF contains(e.msg, << "DryRunOperation" >>) THEN NoError
           ELSE IF contains(e.msg, << "UnauthorizedOperation" >>)
                THEN InsufficientPermissions(<< "DescribeInstances" >>)
           ELSE IF contains(e.msg, << "AuthFailure" >>) THEN InvalidCredentials(e.msg)
           ELSE UnknownError(e.msg)

\* impl From<ec2::DescribeSpotPriceHistoryError> for AwsPollerError
From_DescribeSpotPriceHistoryError(e) ==
    CASE e.variant = "HttpDispatch" -> NetworkError(e.msg)
      [] e.variant = "Credentials" -> InvalidCredentials(e.msg)
      [] e.variant = "Validation" -> InvalidCredentials(e.msg)
      [] e.variant = "Unknown" ->
           IF contains(e.msg, << "DryRunOperation" >>) THEN NoError
           ELSE IF contains(e.msg, << "UnauthorizedOperation" >>)
                THEN InsufficientPermissions(<< "DescribeInstances" >>)
           ELSE IF contains(e.msg, << "AuthFailure" >>) THEN InvalidCredentials(e.msg)
           ELSE UnknownError(e.msg)

\* AwsPollerError::from(e) of the poller kind k
FromProviderError(k, e) ==
    IF k = "instances" THEN From_DescribeInstancesError(e)
    ELSE From_DescribeSpotPriceHistoryError(e)

\* both conversions applied to one provider error
Classify ==
    /\ IsNone(classified)
    /\ \E e \in ProviderErrors :
          /\ probe_err' = Some(e)
          /\ classified' = Some([instances |-> From_DescribeInstancesError(e),
                                 spot |-> From_DescribeSpotPriceHistoryError(e)])
    /\ UNCHANGED << settings, constructed, tagged, labelled, environ, env_config, iterVars, pollVars, runVars >>

ClassifyInit ==
    /\ kind = "instances"
    /\ IterIdle
    /\ PollIdle
    /\ RunIdle
    /\ StartIdle

SpecClassify == ClassifyInit /\ [][Classify]_vars

\* C13 (error classification priority): a provider Unknown(s) is NoError when
\* s contains the dry-run marker, otherwise InsufficientPermissions when it
\* contains the authorization-denial marker, otherwise InvalidCredentials(s)
\* when it contains the authentication-failure marker, otherwise
\* UnknownError(s); the two conversions agree on every error; a dispatch
\* error is a NetworkError and a validation error an InvalidCredentials.
ClassificationPriority ==
    IsSome(classified) =>
        LET e == Unwrap(probe_err)
            c == Unwrap(classified)
            has(w) == \E i \in DOMAIN e.msg : e.msg[i] = w
        IN  /\ c.instances = c.spot
            /\ e.variant = "Unknown" =>
                 /\ has("DryRunOperation") => c.instances = NoError
                 /\ (~has("DryRunOperation") /\ has("UnauthorizedOperation")) =>
                        c.instances[1] = "InsufficientPermissions"
                 /\ (~has("DryRunOperation") /\ ~has("UnauthorizedOperation")
                       /\ has("AuthFailure")) =>
                        c.instances = InvalidCredentials(e.msg)
                 /\ (~has("DryRunOperation") /\ ~has("UnauthorizedOperation")
                       /\ ~has("AuthFailure")) =>
                        c.instances = UnknownError(e.msg)
            /\ e.variant = "HttpDispatch" => c.instances[1] = "NetworkError"
            /\ e.variant = "Validation" => c.instances[1] = "InvalidCredentials"

ClassificationPriorityWitness ==
    /\ probe_err = Some([variant |-> "Unknown",
                         msg |-> << "AuthFailure", "UnauthorizedOperation" >>])
    /\ Unwrap(classified).instances = InsufficientPermissions(<< "DescribeInstances" >>)
    /\ Unwrap(classified).spot = InsufficientPermissions(<< "DescribeInstances" >>)

\* the list operation a poller of kind k calls: client.describe_instances()
\* and client.describe_spot_price_history()
OperationOf(k) ==
    IF k = "instances" THEN "DescribeInstances" ELSE "DescribeSpotPriceHistory"

\* C26 (InsufficientPermissions carries the denied operation) as stated: an
\* InsufficientPermissions value made from an error of the instance listing
\* carries the name of the instance-listing operation, one made from an error
\* of the spot-price history carries the name of the spot-price-history
\* operation.
DeniedOperationCarried ==
    IsSome(classified) =>
        \A k \in {"instances", "spot"} :
            Unwrap(classified)[k][1] = "InsufficientPermissions" =>
                Unwrap(classified)[k] = InsufficientPermissions(<< OperationOf(k) >>)

\* ------------------------------------------------------------------------
\* AwsInstancesPoller::new and AwsSpotPricesPoller::new
\* ------------------------------------------------------------------------
\* what a constructor is called with and meets: None is the success of a
\* step, Some(m) its failure with description m; `probe` is the answer of
\* the provider to the dry-run request
Settings ==
    [ kind : {"instances", "spot"},
      provider_init : {None, Some(<< "no profile" >>)},
      region : {None, Some(<< "not a valid region" >>)},
      gauges : {None, Some(<< "duplicate label" >>)},
      credentials : {None, Some(<< "no credentials" >>)},
      tls : BOOLEAN,
      probe : {None} \cup {Some(e) : e \in ProviderErrors} ]

\* CredentialsProviderWrapper::test()
CredentialsProviderWrapper_test(credentials) ==
    IF IsSome(credentials) THEN Some(InvalidCredentials(Unwrap(credentials))) ELSE None

\* a probe that hands on whatever the conversion returns
test_describe_unfiltered(k, probe) ==
    IF IsSome(probe) THEN Some(FromProviderError(k, Unwrap(probe))) ELSE None

\* test_describe_instances() and test_describe_spot_prices()
test_describe(k, probe) ==
    IF IsSome(probe)
    THEN LET e == FromProviderError(k, Unwrap(probe))
         IN  IF e = NoError THEN None ELSE Some(e)
    ELSE None

Returned(result, tested, sent) ==
    [result |-> result, credentials_tested |-> tested, probe_sent |-> sent]

\* AwsInstancesPoller::new() and AwsSpotPricesPoller::new(): the fields of
\* the struct literal in order, then the two tests
AwsPoller_new(st) ==
    IF IsSome(st.provider_init)
    THEN Returned(<< "Err", InvalidCredentials(Unwrap(st.provider_init)) >>, FALSE, FALSE)
    ELSE IF IsSome(st.region)
    THEN Returned(<< "Err", BadRegion(Unwrap(st.region)) >>, FALSE, FALSE)
    ELSE IF IsSome(st.gauges)
    THEN Returned(<< "Err", UnknownError(Unwrap(st.gauges)) >>, FALSE, FALSE)
    ELSE IF IsSome(CredentialsProviderWrapper_test(st.credentials))
    THEN Returned(<< "Err", Unwrap(CredentialsProviderWrapper_test(st.credentials)) >>,
                  TRUE, FALSE)
    ELSE IF ~st.tls
    THEN Returned(<< "Panic" >>, TRUE, FALSE)
    ELSE IF IsSome(test_describe(st.kind, st.probe))
    THEN Returned(<< "Err", Unwrap(test_describe(st.kind, st.probe)) >>, TRUE, TRUE)
    ELSE Returned(<< "Ok" >>, TRUE, TRUE)

\* one call of a constructor
Construct ==
    /\ IsNone(constructed)
    /\ \E st \in Settings :
          /\ settings' = Some(st)
          /\ constructed' = Some(AwsPoller_new(st))
    /\ UNCHANGED << probe_err, classified, tagged, labelled, environ, env_config, iterVars, pollVars, runVars >>

NewInit ==
    /\ kind = "instances"
    /\ IterIdle
    /\ PollIdle
    /\ RunIdle
    /\ StartIdle

SpecNew == NewInit /\ [][Construct]_vars

\* C14 (fail-fast construction): a constructor returns Ok only if the
\* credential strategy was initialised, the region parsed, the credentials
\* were fetched once and the probe succeeded or was classified NoError; any
\* other classified probe error is the error returned; the probe is sent only
\* after the credentials were fetched; Err(NoError) is never returned.
FailFastConstruction ==
    IsSome(constructed) =>
        LET st == Unwrap(settings)
            c == Unwrap(constructed)
            probed == IF IsSome(st.probe)
                      THEN FromProviderError(st.kind, Unwrap(st.probe))
                      ELSE NoError
        IN  /\ c.result = << "Ok" >> =>
                 /\ IsNone(st.provider_init)
                 /\ IsNone(st.region)
                 /\ IsNone(st.credentials)
                 /\ c.credentials_tested
                 /\ c.probe_sent
                 /\ probed = NoError
            /\ (c.probe_sent /\ probed # NoError) => c.result = << "Err", probed >>
            /\ c.probe_sent => (c.credentials_tested /\ IsNone(st.credentials))
            /\ c.result # << "Err", NoError >>

FailFastConstructionWitness ==
    /\ IsSome(constructed)
    /\ Unwrap(settings).kind = "spot"
    /\ Unwrap(settings).probe =
          Some([variant |-> "Unknown", msg |-> << "DryRunOperation" >>])
    /\ Unwrap(constructed) = Returned(<< "Ok" >>, TRUE, TRUE)

\* ------------------------------------------------------------------------
\* AsyncPeriodicRunner, TerminationGuard and main
\* ------------------------------------------------------------------------
mainVars == << mpc, built, dropIdx, pollers, listening >>
guardVars == << running, guardMutex, hpc >>
timeVars == << elapsed, sleep_duration, slept >>
historyVars == << inflight, iterPasses, lastFailed, midPass >>

\* main constructs the instances runner first, the spot-prices runner second;
\* locals are dropped in reverse order of declaration
ConstructionOrder == << "instances", "spot" >>
\* locals dropped in the order of their declaration
DropOrder_declaration == ConstructionOrder

\* main's locals go out of scope in the reverse order of their declaration
DropOrder == Reverse(ConstructionOrder)

\* one (Mutex<bool>, Condvar) pair shared by all runners
LockOf_shared(r) == "instances"

\* the (Mutex<bool>, Condvar) pair of a runner: AsyncPeriodicRunner::new()
\* allocates one per runner
LockOf(r) == r

\* sleep_duration that waits a further period after an overrun
SleepDuration_further_period(e, poll_period) ==
    IF e < poll_period THEN poll_period - e ELSE poll_period

\* sleep_duration as the worker computes it
SleepDuration(e, poll_period) == IF e < poll_period THEN poll_period - e ELSE 0

\* the poller main constructs next: the instances poller first
NextPoller == CHOOSE k \in Runners :
                 /\ pollers[k] = "none"
                 /\ \A i, j \in DOMAIN ConstructionOrder :
                       (ConstructionOrder[j] = k /\ i < j) =>
                           pollers[ConstructionOrder[i]] # "none"

\* .expect(): main goes on with the value of Ok and panics otherwise
expect(result) == IF result[1] = "Ok" THEN "ok" ELSE "failed"

\* a start-up that goes on without the poller whose constructor failed
PollerNew_lenient ==
    /\ mpc = "pollers"
    /\ \E st \in Settings :
          /\ st.kind = NextPoller
          /\ pollers' = [pollers EXCEPT ![NextPoller] = expect(AwsPoller_new(st).result)]
    /\ mpc' = IF \A k \in Runners \ {NextPoller} : pollers[k] # "none"
              THEN "listen" ELSE "pollers"
    /\ UNCHANGED << listening, built, dropIdx, guardVars, wpc, terminate, mutex,
                    timeVars, historyVars, iterVars, pollVars, startVars >>

\* main: AwsInstancesPoller::new(&config).expect(..), then
\* AwsSpotPricesPoller::new(&config).expect(..); a panic ends main before
\* anything else is created
PollerNew ==
    /\ mpc = "pollers"
    /\ \E st \in Settings :
          /\ st.kind = NextPoller
          /\ pollers' = [pollers EXCEPT ![NextPoller] = expect(AwsPoller_new(st).result)]
          /\ mpc' = IF expect(AwsPoller_new(st).result) # "ok" THEN "panicked"
                    ELSE IF \A k \in Runners \ {NextPoller} : pollers[k] # "none"
                    THEN "listen" ELSE "pollers"
    /\ UNCHANGED << listening, built, dropIdx, guardVars, wpc, terminate, mutex,
                    timeVars, historyVars, iterVars, pollVars, startVars >>

\* main: the two families are registered and Server::http(..).unwrap()
\* .handle(..).unwrap() starts the HTTP server, or panics when the address
\* cannot be bound
Listen ==
    /\ mpc = "listen"
    /\ \E bound \in BOOLEAN :
          /\ listening' = IF bound THEN "open" ELSE "none"
          /\ mpc' = IF bound THEN "new" ELSE "panicked"
    /\ UNCHANGED << pollers, built, dropIdx, guardVars, wpc, terminate, mutex,
                    timeVars, historyVars, iterVars, pollVars, startVars >>

\* AsyncPeriodicRunner::new(): thread::spawn of the worker
NewRunner ==
    /\ mpc = "new"
    /\ wpc' = [wpc EXCEPT ![ConstructionOrder[built + 1]] = "spawned"]
    /\ built' = built + 1
    /\ mpc' = IF built + 1 = Len(ConstructionOrder) THEN "guard_new" ELSE "new"
    /\ UNCHANGED << dropIdx, pollers, listening, guardVars, terminate, mutex,
                    timeVars, historyVars, iterVars, pollVars, startVars >>

\* worker: let mut terminate = l.lock().unwrap()
WorkerLock(r) ==
    /\ wpc[r] = "spawned"
    /\ mutex[LockOf(r)] = "none"
    /\ mutex' = [mutex EXCEPT ![LockOf(r)] = r]
    /\ wpc' = [wpc EXCEPT ![r] = "check"]
    /\ UNCHANGED << mainVars, guardVars, terminate, timeVars, historyVars,
                    iterVars, pollVars, startVars >>

\* a loop that does not test the flag before the pass
StartPass_unchecked(r) ==
    /\ wpc[r] = "check"
    /\ wpc' = [wpc EXCEPT ![r] = "poll"]
    /\ inflight' = [inflight EXCEPT ![r] = @ + 1]
    /\ iterPasses' = [iterPasses EXCEPT ![r] = @ + 1]
    /\ UNCHANGED << mainVars, guardVars, terminate, mutex, timeVars, lastFailed, midPass,
                    iterVars, pollVars, startVars >>

\* worker: `while !*terminate` is true, poller.poll() begins
StartPass(r) ==
    /\ wpc[r] = "check"
    /\ ~terminate[LockOf(r)]
    /\ wpc' = [wpc EXCEPT ![r] = "poll"]
    /\ inflight' = [inflight EXCEPT ![r] = @ + 1]
    /\ iterPasses' = [iterPasses EXCEPT ![r] = @ + 1]
    /\ UNCHANGED << mainVars, guardVars, terminate, mutex, timeVars, lastFailed, midPass,
                    iterVars, pollVars, startVars >>

\* worker: `while !*terminate` is false, the closure returns and the
\* MutexGuard is dropped
WorkerExit(r) ==
    /\ wpc[r] = "check"
    /\ terminate[LockOf(r)]
    /\ wpc' = [wpc EXCEPT ![r] = "exited"]
    /\ mutex' = [mutex EXCEPT ![LockOf(r)] = "none"]
    /\ UNCHANGED << mainVars, guardVars, terminate, timeVars, historyVars,
                    iterVars, pollVars, startVars >>

\* a worker that waits one further period after a failed pass
EndPass_backoff(r) ==
    /\ wpc[r] = "poll"
    /\ \E e \in 0..MaxElapsed, query_failed \in BOOLEAN :
          /\ elapsed' = [elapsed EXCEPT ![r] = e]
          /\ lastFailed' = [lastFailed EXCEPT ![r] = query_failed]
          /\ sleep_duration' = [sleep_duration EXCEPT ![r] =
                 SleepDuration(e, Period) + (IF query_failed THEN Period ELSE 0)]
    /\ slept' = [slept EXCEPT ![r] = 0]
    /\ inflight' = [inflight EXCEPT ![r] = @ - 1]
    /\ mutex' = [mutex EXCEPT ![LockOf(r)] = "none"]
    /\ wpc' = [wpc EXCEPT ![r] = "wait"]
    /\ UNCHANGED << mainVars, guardVars, terminate, iterPasses, midPass,
                    iterVars, pollVars, startVars >>

\* worker: poll() returns after `e` ticks, with or without a page-fetch error
\* (poll() reports the error on stderr and returns unit either way),
\* sleep_duration is computed and cvar.wait_timeout() releases the mutex and
\* blocks
EndPass(r) ==
    /\ wpc[r] = "poll"
    /\ \E e \in 0..MaxElapsed, query_failed \in BOOLEAN :
          /\ elapsed' = [elapsed EXCEPT ![r] = e]
          /\ lastFailed' = [lastFailed EXCEPT ![r] = query_failed]
          /\ sleep_duration' = [sleep_duration EXCEPT ![r] = SleepDuration(e, Period)]
    /\ slept' = [slept EXCEPT ![r] = 0]
    /\ inflight' = [inflight EXCEPT ![r] = @ - 1]
    /\ mutex' = [mutex EXCEPT ![LockOf(r)] = "none"]
    /\ wpc' = [wpc EXCEPT ![r] = "wait"]
    /\ UNCHANGED << mainVars, guardVars, terminate, iterPasses, midPass,
                    iterVars, pollVars, startVars >>

\* one tick of the clock passes while the worker is blocked in wait_timeout
Tick(r) ==
    /\ wpc[r] = "wait"
    /\ slept[r] < sleep_duration[r]
    /\ slept' = [slept EXCEPT ![r] = @ + 1]
    /\ UNCHANGED << mainVars, guardVars, wpc, terminate, mutex, elapsed,
                    sleep_duration, historyVars,
                    iterVars, pollVars, startVars >>

\* wait_timeout: the timeout has elapsed
WakeTimeout(r) ==
    /\ wpc[r] = "wait"
    /\ slept[r] >= sleep_duration[r]
    /\ wpc' = [wpc EXCEPT ![r] = "woken"]
    /\ UNCHANGED << mainVars, guardVars, terminate, mutex, timeVars, historyVars,
                    iterVars, pollVars, startVars >>

\* wait_timeout: a spurious wake-up before the timeout
WakeSpurious(r) ==
    /\ wpc[r] = "wait"
    /\ slept[r] < sleep_duration[r]
    /\ wpc' = [wpc EXCEPT ![r] = "woken"]
    /\ UNCHANGED << mainVars, guardVars, terminate, mutex, timeVars, historyVars,
                    iterVars, pollVars, startVars >>

\* wait_timeout re-acquires the mutex and returns into the loop condition
WorkerRelock(r) ==
    /\ wpc[r] = "woken"
    /\ mutex[LockOf(r)] = "none"
    /\ mutex' = [mutex EXCEPT ![LockOf(r)] = r]
    /\ wpc' = [wpc EXCEPT ![r] = "check"]
    /\ iterPasses' = [iterPasses EXCEPT ![r] = 0]
    /\ lastFailed' = [lastFailed EXCEPT ![r] = FALSE]
    /\ UNCHANGED << mainVars, guardVars, terminate, timeVars, inflight, midPass,
                    iterVars, pollVars, startVars >>

\* TerminationGuard::new(): ctrlc::set_handler
GuardNew ==
    /\ mpc = "guard_new"
    /\ hpc' = "idle"
    /\ mpc' = "guard_lock"
    /\ UNCHANGED << built, pollers, listening, dropIdx, running, guardMutex, wpc, terminate, mutex,
                    timeVars, historyVars,
                    iterVars, pollVars, startVars >>

\* Drop for TerminationGuard: l.lock()
GuardLock ==
    /\ mpc = "guard_lock"
    /\ guardMutex = "none"
    /\ guardMutex' = "main"
    /\ mpc' = "guard_check"
    /\ UNCHANGED << built, pollers, listening, dropIdx, running, hpc, wpc, terminate, mutex,
                    timeVars, historyVars,
                    iterVars, pollVars, startVars >>

\* Drop for TerminationGuard: `while *r` is true, cvar.wait(r)
GuardWait ==
    /\ mpc = "guard_check"
    /\ running
    /\ guardMutex' = "none"
    /\ mpc' = "guard_wait"
    /\ UNCHANGED << built, pollers, listening, dropIdx, running, hpc, wpc, terminate, mutex,
                    timeVars, historyVars,
                    iterVars, pollVars, startVars >>

\* Drop for TerminationGuard: `while *r` is false, drop() returns
GuardPass ==
    /\ mpc = "guard_check"
    /\ ~running
    /\ guardMutex' = "none"
    /\ mpc' = "close"
    /\ UNCHANGED << built, pollers, listening, dropIdx, running, hpc, wpc, terminate, mutex,
                    timeVars, historyVars,
                    iterVars, pollVars, startVars >>

\* cvar.wait: a spurious wake-up
GuardWakeSpurious ==
    /\ mpc = "guard_wait"
    /\ mpc' = "guard_woken"
    /\ UNCHANGED << built, pollers, listening, dropIdx, guardVars, wpc, terminate, mutex,
                    timeVars, historyVars,
                    iterVars, pollVars, startVars >>

\* a wait that is not in a loop: after the wake-up drop() returns
GuardRelock_unlooped ==
    /\ mpc = "guard_woken"
    /\ guardMutex = "none"
    /\ mpc' = "close"
    /\ UNCHANGED << built, pollers, listening, dropIdx, guardVars, wpc, terminate, mutex,
                    timeVars, historyVars,
                    iterVars, pollVars, startVars >>

\* cvar.wait re-acquires the mutex and returns
GuardRelock ==
    /\ mpc = "guard_woken"
    /\ guardMutex = "none"
    /\ guardMutex' = "main"
    /\ mpc' = "guard_check"
    /\ UNCHANGED << built, pollers, listening, dropIdx, running, hpc, wpc, terminate, mutex,
                    timeVars, historyVars,
                    iterVars, pollVars, startVars >>

\* an interrupt signal arrives and the handler closure is invoked; signals
\* that arrive after main has left the guard only store false again and
\* are left out
Interrupt ==
    /\ hpc = "idle"
    /\ mpc \in {"guard_lock", "guard_check", "guard_wait", "guard_woken"}
    /\ hpc' = "lock"
    /\ UNCHANGED << mainVars, running, guardMutex, wpc, terminate, mutex,
                    timeVars, historyVars,
                    iterVars, pollVars, startVars >>

\* handler: l.lock()
HandlerLock ==
    /\ hpc = "lock"
    /\ guardMutex = "none"
    /\ guardMutex' = "handler"
    /\ hpc' = "set"
    /\ UNCHANGED << mainVars, running, wpc, terminate, mutex, timeVars, historyVars,
                    iterVars, pollVars, startVars >>

\* handler: *r = false
HandlerSet ==
    /\ hpc = "set"
    /\ running' = FALSE
    /\ hpc' = "notify"
    /\ UNCHANGED << mainVars, guardMutex, wpc, terminate, mutex, timeVars, historyVars,
                    iterVars, pollVars, startVars >>

\* handler: cvar.notify_all()
HandlerNotify ==
    /\ hpc = "notify"
    /\ mpc' = IF mpc = "guard_wait" THEN "guard_woken" ELSE mpc
    /\ hpc' = "unlock"
    /\ UNCHANGED << built, pollers, listening, dropIdx, running, guardMutex, wpc, terminate, mutex,
                    timeVars, historyVars,
                    iterVars, pollVars, startVars >>

\* handler: the MutexGuard is dropped at the end of the block
HandlerUnlock ==
    /\ hpc = "unlock"
    /\ guardMutex' = "none"
    /\ hpc' = "idle"
    /\ UNCHANGED << mainVars, running, wpc, terminate, mutex, timeVars, historyVars,
                    iterVars, pollVars, startVars >>

\* main: listening.close(); the locals then go out of scope and Drop of the
\* first of them is invoked
ServerClose ==
    /\ mpc = "close"
    /\ mpc' = "drop_lock"
    /\ listening' = "closed"
    /\ midPass' = (wpc[DropOrder[1]] = "poll")
    /\ UNCHANGED << built, pollers, dropIdx, guardVars, wpc, terminate, mutex, timeVars,
                    inflight, iterPasses, lastFailed,
                    iterVars, pollVars, startVars >>

\* the runner whose Drop main is executing
DropTarget == DropOrder[dropIdx + 1]

\* Drop that sets the flag without waiting for the mutex
DropLock_unlocked ==
    /\ mpc = "drop_lock"
    /\ mpc' = "drop_set"
    /\ midPass' = FALSE
    /\ UNCHANGED << built, pollers, listening, dropIdx, guardVars, wpc, terminate, mutex, timeVars,
                    inflight, iterPasses, lastFailed, iterVars, pollVars, startVars >>

\* Drop for AsyncPeriodicRunner: l.lock()
DropLock ==
    /\ mpc = "drop_lock"
    /\ mutex[LockOf(DropTarget)] = "none"
    /\ mutex' = [mutex EXCEPT ![LockOf(DropTarget)] = "main"]
    /\ mpc' = "drop_set"
    /\ midPass' = FALSE
    /\ UNCHANGED << built, pollers, listening, dropIdx, guardVars, wpc, terminate, timeVars,
                    inflight, iterPasses, lastFailed,
                    iterVars, pollVars, startVars >>

\* Drop for AsyncPeriodicRunner: *terminate = true
DropSet ==
    /\ mpc = "drop_set"
    /\ terminate' = [terminate EXCEPT ![LockOf(DropTarget)] = TRUE]
    /\ mpc' = "drop_notify"
    /\ UNCHANGED << built, pollers, listening, dropIdx, guardVars, wpc, mutex, timeVars, historyVars,
                    iterVars, pollVars, startVars >>

\* Drop for AsyncPeriodicRunner: cvar.notify_one() wakes one thread blocked
\* on the condition variable, if there is one
DropNotify ==
    /\ mpc = "drop_notify"
    /\ LET waiters == { w \in Runners : LockOf(w) = LockOf(DropTarget) /\ wpc[w] = "wait" }
       IN  IF waiters = {} THEN wpc' = wpc
           ELSE \E w \in waiters : wpc' = [wpc EXCEPT ![w] = "woken"]
    /\ mpc' = "drop_unlock"
    /\ UNCHANGED << built, pollers, listening, dropIdx, guardVars, terminate, mutex, timeVars, historyVars,
                    iterVars, pollVars, startVars >>

\* Drop for AsyncPeriodicRunner: the MutexGuard is dropped at the end of the block
DropUnlock ==
    /\ mpc = "drop_unlock"
    /\ mutex' = [mutex EXCEPT ![LockOf(DropTarget)] = "none"]
    /\ mpc' = "drop_join"
    /\ UNCHANGED << built, pollers, listening, dropIdx, guardVars, wpc, terminate, timeVars, historyVars,
                    iterVars, pollVars, startVars >>

\* Drop that detaches the worker instead of joining it
DropJoin_detached ==
    /\ mpc = "drop_join"
    /\ dropIdx' = dropIdx + 1
    /\ mpc' = IF dropIdx + 1 = Len(DropOrder) THEN "exit" ELSE "drop_lock"
    /\ midPass' = IF dropIdx + 1 = Len(DropOrder) THEN FALSE
                  ELSE wpc[DropOrder[dropIdx + 2]] = "poll"
    /\ UNCHANGED << built, pollers, listening, guardVars, wpc, terminate, mutex, timeVars,
                    inflight, iterPasses, lastFailed,
                    iterVars, pollVars, startVars >>

\* Drop for AsyncPeriodicRunner: h.join() returns once the worker has exited
DropJoin ==
    /\ mpc = "drop_join"
    /\ wpc[DropTarget] = "exited"
    /\ dropIdx' = dropIdx + 1
    /\ mpc' = IF dropIdx + 1 = Len(DropOrder) THEN "exit" ELSE "drop_lock"
    /\ midPass' = IF dropIdx + 1 = Len(DropOrder) THEN FALSE
                  ELSE wpc[DropOrder[dropIdx + 2]] = "poll"
    /\ UNCHANGED << built, pollers, listening, guardVars, wpc, terminate, mutex, timeVars,
                    inflight, iterPasses, lastFailed,
                    iterVars, pollVars, startVars >>

WorkerStep(r) ==
    \/ WorkerLock(r) \/ StartPass(r) \/ WorkerExit(r) \/ EndPass(r)
    \/ WakeTimeout(r) \/ WorkerRelock(r)

MainStep ==
    \/ PollerNew \/ Listen
    \/ NewRunner \/ GuardNew \/ GuardLock \/ GuardWait \/ GuardPass \/ GuardRelock
    \/ ServerClose \/ DropLock \/ DropSet \/ DropNotify \/ DropUnlock \/ DropJoin

HandlerStep == HandlerLock \/ HandlerSet \/ HandlerNotify \/ HandlerUnlock

RunInit ==
    /\ kind = "instances"
    /\ IterIdle
    /\ PollIdle
    /\ RunIdle
    /\ StartIdle

RunNext ==
    \/ MainStep
    \/ GuardWakeSpurious
    \/ Interrupt
    \/ HandlerStep
    \/ \E r \in Runners : WorkerStep(r) \/ Tick(r) \/ WakeSpurious(r)

SpecRun == RunInit /\ [][RunNext]_vars

\* scheduling: every thread that can take a step eventually takes one, the
\* clock advances, a pass returns; interrupts and spurious wake-ups are not
\* guaranteed to happen
Fairness ==
    /\ WF_vars(MainStep)
    /\ WF_vars(HandlerStep)
    /\ \A r \in Runners : WF_vars(WorkerStep(r)) /\ WF_vars(Tick(r))

SpecRunFair == SpecRun /\ Fairness

Dropping(r) ==
    /\ mpc \in {"drop_lock", "drop_set", "drop_notify", "drop_unlock", "drop_join"}
    /\ DropTarget = r

DropReturned(r) == \E i \in 1..dropIdx : DropOrder[i] = r

\* C6 (shutdown during sleep): no pass is in flight and no pass begins while
\* the terminate flag of its runner is true, and once the flag is set the
\* worker exits, whether the flag was set during the sleep, at the moment
\* of the timeout or before the worker first took the lock.
ShutdownDuringSleep ==
    /\ [](\A r \in Runners : terminate[LockOf(r)] => wpc[r] # "poll")
    /\ [][\A r \in Runners :
            (wpc[r] # "poll" /\ wpc'[r] = "poll") => ~terminate[LockOf(r)]]_vars
    /\ \A r \in Runners : terminate[LockOf(r)] ~> (wpc[r] = "exited")

ShutdownDuringSleepWitness ==
    /\ mpc = "drop_notify"
    /\ terminate[LockOf("spot")]
    /\ wpc["spot"] = "wait"
    /\ slept["spot"] < sleep_duration["spot"]

\* C7 (shutdown mid-pass): while a pass is executing the worker holds the
\* mutex and the terminate flag is false; a pass ends only by returning into
\* the sleep, never by an exit of the worker or with the flag set.
ShutdownMidPass ==
    /\ [](\A r \in Runners : wpc[r] = "poll" =>
              (~terminate[LockOf(r)] /\ mutex[LockOf(r)] = r))
    /\ [][\A r \in Runners : wpc[r] = "poll" =>
              (wpc'[r] \in {"poll", "wait"} /\ ~terminate'[LockOf(r)])]_vars

ShutdownMidPassWitness ==
    /\ Dropping("instances")
    /\ mpc = "drop_lock"
    /\ wpc["instances"] = "poll"

\* C8 (Drop returns after the worker has exited): once Drop of a runner has
\* returned its worker has exited, no pass of it is in flight, and an exited
\* worker never runs again.
DropReturnsAfterExit ==
    /\ [](\A r \in Runners : DropReturned(r) => (wpc[r] = "exited" /\ inflight[r] = 0))
    /\ [][\A r \in Runners : wpc[r] = "exited" => wpc'[r] = "exited"]_vars

DropReturnsAfterExitWitness ==
    /\ DropReturned("spot")
    /\ ~DropReturned("instances")
    /\ wpc["instances"] = "poll"

\* C9 (runner overrun): after a pass that took at least the period the
\* computed sleep is max(0, period - elapsed) = 0, the timeout is due at once
\* without any tick of the clock, no time has been slept when the next pass
\* runs, and at most one pass runs per iteration of the loop.
RunnerOverrun ==
    \A r \in Runners :
        /\ wpc[r] \in {"wait", "woken"} =>
              /\ sleep_duration[r] >= 0
              /\ sleep_duration[r] + elapsed[r] >= Period
              /\ (elapsed[r] < Period => sleep_duration[r] = Period - elapsed[r])
              /\ (elapsed[r] >= Period => sleep_duration[r] = 0)
        /\ (wpc[r] = "wait" /\ elapsed[r] >= Period) =>
              (ENABLED WakeTimeout(r) /\ ~ENABLED Tick(r))
        /\ elapsed[r] >= Period => slept[r] = 0
        /\ iterPasses[r] <= 1

RunnerOverrunWitness ==
    /\ wpc["instances"] = "poll"
    /\ elapsed["instances"] = Period
    /\ slept["instances"] = 0
    /\ wpc["spot"] = "poll"
    /\ elapsed["spot"] = MaxElapsed
    /\ running

\* C10 (passes of one poller are sequential, runners are independent): at
\* most one pass of a poller is in flight; the mutex of a runner is held only
\* by its own worker or by the thread dropping that runner, and its terminate
\* flag changes only in the Drop of that runner.
SequentialPasses ==
    /\ [](\A r \in Runners :
            /\ inflight[r] <= 1
            /\ (inflight[r] = 1) = (wpc[r] = "poll")
            /\ mutex[LockOf(r)] \in {"none", r} \cup (IF Dropping(r) THEN {"main"} ELSE {}))
    /\ [][\A r \in Runners :
            terminate'[LockOf(r)] # terminate[LockOf(r)] => Dropping(r)]_vars

SequentialPassesWitness ==
    /\ wpc["instances"] = "poll"
    /\ wpc["spot"] = "poll"
    /\ inflight = [r \in Runners |-> 1]

\* positions of main inside Drop for TerminationGuard, and after it
GuardPhases == {"guard_lock", "guard_check", "guard_wait", "guard_woken"}
PastGuard == {"close", "drop_lock", "drop_set", "drop_notify", "drop_unlock",
              "drop_join", "exit"}

\* C22 (bounded shutdown) as stated: when Drop of a runner was invoked while
\* a pass of it was in flight, its worker starts no further pass: the pass in
\* flight is the last one, whatever the period and the duration of the passes.
BoundedShutdown ==
    [][\A r \in Runners :
          (Dropping(r) /\ midPass /\ wpc[r] # "poll") => wpc'[r] # "poll"]_vars

\* C23 (interruptible sleep respects the period) as stated: a pass starts
\* only when the whole sleep_duration computed after the previous pass
\* (period - elapsed) has been slept; a wake-up of wait_timeout before the
\* timeout, with the terminate flag still false, starts no pass.
SleepRespectsPeriod ==
    [][\A r \in Runners :
          (wpc[r] = "check" /\ wpc'[r] = "poll") => slept[r] >= sleep_duration[r]]_vars

\* C28 (no partial start-up): a runner exists, and a pass runs, only when
\* both constructors returned Ok and the HTTP server was started; when a
\* constructor has failed main has panicked, the server was never started, no
\* runner was created and no poller is constructed after the failure.
NoPartialStartup ==
    /\ (\E r \in Runners : wpc[r] # "unspawned" \/ inflight[r] > 0) =>
          ((\A k \in Runners : pollers[k] = "ok") /\ listening # "none")
    /\ built > 0 => ((\A k \in Runners : pollers[k] = "ok") /\ listening # "none")
    /\ listening # "none" => \A k \in Runners : pollers[k] = "ok"
    /\ (\E k \in Runners : pollers[k] = "failed") =>
          /\ mpc = "panicked"
          /\ listening = "none"
          /\ built = 0
          /\ \A r \in Runners : wpc[r] = "unspawned"
          /\ Cardinality({ k \in Runners : pollers[k] = "failed" }) = 1
          /\ \A i, j \in DOMAIN ConstructionOrder :
                (i < j /\ pollers[ConstructionOrder[i]] = "failed") =>
                    pollers[ConstructionOrder[j]] = "none"

NoPartialStartupWitness ==
    /\ pollers = [instances |-> "ok", spot |-> "failed"]
    /\ mpc = "panicked"
    /\ listening = "none"
    /\ \A r \in Runners : wpc[r] = "unspawned"

\* C31 (shutdown terminates): once Drop of an AsyncPeriodicRunner is invoked
\* it eventually holds the mutex, the terminate flag is eventually set, and
\* the Drop eventually returns with the worker exited, under weak fairness
\* of the worker, the clock and the dropping thread; every pass returns, also
\* a pass that overruns the period and leaves a sleep of length zero.
ShutdownTerminates ==
    \A r \in Runners :
        /\ (Dropping(r) /\ mpc = "drop_lock") ~> (Dropping(r) /\ mutex[LockOf(r)] = "main")
        /\ Dropping(r) ~> terminate[LockOf(r)]
        /\ Dropping(r) ~> (DropReturned(r) /\ wpc[r] = "exited")

\* scheduling of the mutex of `running`: a thread blocked in lock() gets the
\* mutex if it is free again and again, however often the other thread takes
\* it for a spurious wake-up or a further interrupt
LockFairness ==
    /\ Fairness
    /\ SF_vars(HandlerLock)
    /\ SF_vars(GuardLock)
    /\ SF_vars(GuardRelock)

SpecRunLockFair == SpecRun /\ LockFairness

\* C16 (process lifecycle wait): main is past the TerminationGuard only when
\* the handler has set `running` to false, and until then the server is not
\* closed, no runner is dropped and no terminate flag is set; the wait is
\* left only by the loop condition finding `running` false, so a spurious
\* wake-up does not release it; an interrupt delivered at any time after the
\* handler was installed, also before the wait began, leads to its return.
LifecycleWait ==
    /\ [](mpc \in PastGuard => ~running)
    /\ [](mpc \notin PastGuard =>
            (dropIdx = 0 /\ \A r \in Runners : ~terminate[LockOf(r)]))
    /\ [][(mpc \in GuardPhases /\ mpc' \notin GuardPhases) =>
            (mpc = "guard_check" /\ ~running /\ mpc' = "close")]_vars
    /\ (hpc = "lock") ~> (mpc \in PastGuard)

LifecycleWaitWitness ==
    /\ mpc = "guard_lock"
    /\ hpc = "unlock"
    /\ ~running
    /\ guardMutex = "handler"

\* C17 (reverse-order unwinding): a runner's terminate flag is set only when
\* every runner constructed after it has its flag set, its worker exited and
\* its Drop returned, so the spot-prices runner is unwound before the
\* instances runner; no flag is set before main has seen `running` false.
ReverseOrderUnwinding ==
    /\ \A i, j \in DOMAIN ConstructionOrder :
          (i < j /\ terminate[LockOf(ConstructionOrder[i])]) =>
              /\ terminate[LockOf(ConstructionOrder[j])]
              /\ wpc[ConstructionOrder[j]] = "exited"
              /\ DropReturned(ConstructionOrder[j])
    /\ \A r \in Runners :
          terminate[LockOf(r)] => (~running /\ mpc \in PastGuard)

ReverseOrderUnwindingWitness ==
    /\ mpc = "drop_notify"
    /\ DropTarget = "instances"
    /\ terminate[LockOf("instances")]
    /\ wpc["instances"] = "wait"
    /\ wpc["spot"] = "exited"
    /\ ~running

\* C11 (retry after a failed pass): a worker whose pass ended with a
\* page-fetch error keeps running: it sleeps max(0, period - elapsed), the same
\* as after a successful pass, every pass may fail, the worker exits only
\* when its terminate flag is set, and unless termination is requested
\* another pass eventually starts.
RetryAfterFailedPass ==
    /\ [](\A r \in Runners : (lastFailed[r] /\ wpc[r] \in {"wait", "woken"}) =>
              sleep_duration[r] = SleepDuration(elapsed[r], Period))
    /\ [][\A r \in Runners :
            (wpc[r] = "poll" /\ wpc'[r] = "wait" /\ lastFailed'[r]) =>
                sleep_duration'[r] = SleepDuration(elapsed'[r], Period)]_vars
    /\ [](\A r \in Runners : wpc[r] = "poll" => ENABLED EndPass(r))
    /\ [][\A r \in Runners :
            (wpc[r] # "exited" /\ wpc'[r] = "exited") => terminate[LockOf(r)]]_vars
    /\ \A r \in Runners :
          (lastFailed[r] /\ wpc[r] = "wait") ~>
              (wpc[r] = "poll" \/ terminate[LockOf(r)])

RetryAfterFailedPassWitness ==
    /\ lastFailed["instances"]
    /\ wpc["instances"] = "woken"
    /\ elapsed["instances"] < Period
    /\ slept["instances"] = sleep_duration["instances"]
    /\ ~lastFailed["spot"]
    /\ wpc["spot"] = "wait"
    /\ ~terminate[LockOf("instances")]
    /\ mutex[LockOf("instances")] = "none"

\* ------------------------------------------------------------------------
\* The labels of one record
\* ------------------------------------------------------------------------
TagKeys == { None, Some("Team"), Some("team"), Some("Owner") }
TagValues == { None, Some("x"), Some("y") }

\* records that have a tags list
TaggedInstances ==
    [ instance_id : {Some("i-A")},
      placement : {Some([availability_zone |-> Some("us-east-1a")])},
      platform : {None, Some("windows")},
      instance_type : {Some("t2.micro")},
      instance_lifecycle : {None, Some("spot")},
      tags : { Some(t) : t \in SeqsUpTo([key : TagKeys, value : TagValues], MaxTags) } ]

\* expose-lists GaugeVec::new() accepts: the label names are distinct
ExposeLists ==
    { ex \in SeqsUpTo({"team", "owner", "TEAM"}, MaxExpose) :
        \A i, j \in DOMAIN ex : ex[i] = ex[j] => i = j }

\* the loop body of poll() up to the end of the construction of `labels`
Label ==
    /\ IsNone(tagged)
    /\ \E i \in TaggedInstances, ex \in ExposeLists :
          /\ tagged' = Some([instance |-> i, expose_tags |-> ex])
          /\ labelled' = IF LabelPanics(i, ex) THEN << "panic" >>
                       ELSE << "built", BuildLabels(i, ex) >>
    /\ UNCHANGED << probe_err, classified, settings, constructed, environ, env_config,
                    iterVars, pollVars, runVars >>

LabelsInit ==
    /\ kind = "instances"
    /\ IterIdle
    /\ PollIdle
    /\ RunIdle
    /\ StartIdle

SpecLabels == LabelsInit /\ [][Label]_vars

\* C15 (label construction): the labels built for a record that has tags are
\* the five fixed labels followed by one label per entry of the expose-list in
\* the order of the list; the value of such a label is the value of the first
\* tag whose key equals the entry ignoring ASCII case, and the empty string
\* when no tag matches.
LabelConstruction ==
    (IsSome(tagged) /\ labelled[1] = "built") =>
        LET tags == Unwrap(Unwrap(tagged).instance.tags)
            ex == Unwrap(tagged).expose_tags
            vec == labelled[2]
            matches(e) == { j \in DOMAIN tags :
                              /\ IsSome(tags[j].key)
                              /\ ToAsciiLower(Unwrap(tags[j].key)) = ToAsciiLower(e) }
        IN  /\ Len(vec) = 5 + Len(ex)
            /\ [i \in 1..5 |-> vec[i][1]] =
                  << "id", "availability_zone", "platform", "type", "lifecycle" >>
            /\ \A i \in DOMAIN ex :
                  /\ vec[5 + i][1] = ex[i]
                  /\ IF matches(ex[i]) = {}
                     THEN vec[5 + i][2] = ""
                     ELSE \E j \in matches(ex[i]) :
                             /\ \A k \in matches(ex[i]) : j <= k
                             /\ Some(vec[5 + i][2]) = tags[j].value

LabelConstructionWitness ==
    /\ IsSome(tagged)
    /\ Unwrap(tagged).instance.tags = Some(<< [key |-> Some("Team"), value |-> Some("x")] >>)
    /\ Unwrap(tagged).expose_tags = << "team", "owner" >>
    /\ labelled[1] = "built"
    /\ labelled[2][6] = << "team", "x" >>
    /\ labelled[2][7] = << "owner", "" >>

\* ------------------------------------------------------------------------
\* EnvConfig
\* ------------------------------------------------------------------------
POLLING_PERIOD_OPTION_NAME == "DEUCALION_POLLING_PERIOD"
AWS_CREDENTIALS_PROVIDER_OPTION_NAME == "DEUCALION_AWS_CREDENTIALS_PROVIDER"
LISTEN_ON_OPTION_NAME == "DEUCALION_LISTEN_ON"
READ_TIMEOUT_OPTION_NAME == "DEUCALION_READ_TIMEOUT"
KEEP_ALIVE_TIMEOUT_OPTION_NAME == "DEUCALION_KEEP_ALIVE_TIMEOUT"

OptionNames ==
    { POLLING_PERIOD_OPTION_NAME, AWS_CREDENTIALS_PROVIDER_OPTION_NAME,
      LISTEN_ON_OPTION_NAME, READ_TIMEOUT_OPTION_NAME, KEEP_ALIVE_TIMEOUT_OPTION_NAME }

OptionNotFound(name) == << "OptionNotFound", name >>
OptionFailedToParse(name) == << "OptionFailedToParse", name >>
BadOptionValue(name, value) == << "BadOptionValue", name, value >>

\* env::var(name): the value of a variable is a sequence of pieces of text
NotPresent == << "NotPresent" >>
NotUnicode == << "NotUnicode" >>
VarOk(v) == << "Ok", v >>

\* values a variable is set to: digits and letters for the numbers, an
\* address, a colon and a port for the socket address
NumberStrings == { << >>, << "3" >>, << "6", "0" >>, << "d", "a", "s" >>, << "3", "a" >> }
AddressStrings ==
    { << "0.0.0.0", ":", "9", "0", "9", "0" >>, << "127.0.0.1", ":", "8", "0" >>,
      << "asdad" >>, << "127.0.0.1" >>, << "localhost", ":", "8", "0" >>,
      << "127.0.0.1", ":", "d" >> }
ProviderStrings ==
    { << "Environment" >>, << "Profile" >>, << "Instance" >>, << "Container" >>,
      << "environment" >> }

\* what env::var() returns for a variable that is set to one of `strings`
\* or not set
VarResults(strings) == {NotPresent, NotUnicode} \cup { VarOk(v) : v \in strings }

Environments ==
    { [ n \in OptionNames |->
          CASE n = POLLING_PERIOD_OPTION_NAME -> pp
            [] n = AWS_CREDENTIALS_PROVIDER_OPTION_NAME -> cp
            [] n = LISTEN_ON_OPTION_NAME -> lo
            [] n = READ_TIMEOUT_OPTION_NAME -> rt
            [] n = KEEP_ALIVE_TIMEOUT_OPTION_NAME -> ka ] :
        pp \in VarResults(NumberStrings), cp \in VarResults(ProviderStrings),
        lo \in VarResults(AddressStrings), rt \in VarResults(NumberStrings),
        ka \in VarResults(NumberStrings) }

DigitValue(c) ==
    CASE c = "0" -> 0 [] c = "1" -> 1 [] c = "2" -> 2 [] c = "3" -> 3 [] c = "4" -> 4
      [] c = "5" -> 5 [] c = "6" -> 6 [] c = "7" -> 7 [] c = "8" -> 8 [] c = "9" -> 9
      [] OTHER -> -1

RECURSIVE Decimal(_)
Decimal(v) ==
    IF v = << >> THEN 0
    ELSE 10 * Decimal(SubSeq(v, 1, Len(v) - 1)) + DigitValue(v[Len(v)])

\* u64::from_str: a non-empty string of decimal digits
u64_from_str(v) ==
    IF v # << >> /\ \A i \in DOMAIN v : DigitValue(v[i]) >= 0
    THEN << "Ok", Decimal(v) >> ELSE << "Err" >>

\* SocketAddr::from_str: an IP address, a colon and a port; names are not
\* resolved
SocketAddr_from_str(v) ==
    IF /\ Len(v) >= 3
       /\ v[1] \in {"0.0.0.0", "127.0.0.1"}
       /\ v[2] = ":"
       /\ u64_from_str(SubSeq(v, 3, Len(v)))[1] = "Ok"
    THEN << "Ok", [ip |-> v[1], port |-> u64_from_str(SubSeq(v, 3, Len(v)))[2]] >>
    ELSE << "Err" >>

\* impl FromStr for AwsCredentialsProvider
AwsCredentialsProvider_from_str(v) ==
    IF v \in { << "Environment" >>, << "Profile" >>, << "Instance" >>, << "Container" >> }
    THEN << "Ok", v[1] >> ELSE << "Err" >>

\* T::from_str of the type of the option
from_str(name, v) ==
    IF name = LISTEN_ON_OPTION_NAME THEN SocketAddr_from_str(v)
    ELSE IF name = AWS_CREDENTIALS_PROVIDER_OPTION_NAME
    THEN AwsCredentialsProvider_from_str(v)
    ELSE u64_from_str(v)

\* a lookup that reports a missing variable as a failure to parse
get_env_setting_swapped(e, name) ==
    IF e[name] = NotPresent THEN << "Err", OptionFailedToParse(name) >>
    ELSE IF e[name] = NotUnicode THEN << "Err", OptionNotFound(name) >>
    ELSE IF from_str(name, e[name][2])[1] = "Ok"
         THEN << "Ok", from_str(name, e[name][2])[2] >>
         ELSE << "Err", BadOptionValue(name, e[name][2]) >>

\* get_env_setting::<T>(name) in the environment e
get_env_setting(e, name) ==
    IF e[name] = NotPresent THEN << "Err", OptionNotFound(name) >>
    ELSE IF e[name] = NotUnicode THEN << "Err", OptionFailedToParse(name) >>
    ELSE IF from_str(name, e[name][2])[1] = "Ok"
         THEN << "Ok", from_str(name, e[name][2])[2] >>
         ELSE << "Err", BadOptionValue(name, e[name][2]) >>

\* a lookup of an optional setting that passes a missing variable on as an
\* error
get_env_option_setting_strict(e, name) ==
    LET setting == get_env_setting(e, name)
    IN  IF setting[1] = "Ok" THEN << "Ok", Some(setting[2]) >>
        ELSE setting

\* get_env_option_setting::<T>(name) in the environment e
get_env_option_setting(e, name) ==
    LET setting == get_env_setting(e, name)
    IN  IF setting[1] = "Ok" THEN << "Ok", Some(setting[2]) >>
        ELSE IF setting[2][1] = "OptionNotFound" THEN << "Ok", None >>
        ELSE setting

\* EnvConfig::new(): the fields of the struct literal in order, each with `?`
EnvConfig_new(e) ==
    LET pp == get_env_option_setting(e, POLLING_PERIOD_OPTION_NAME)
        cp == get_env_option_setting(e, AWS_CREDENTIALS_PROVIDER_OPTION_NAME)
        lo == get_env_setting(e, LISTEN_ON_OPTION_NAME)
        rt == get_env_option_setting(e, READ_TIMEOUT_OPTION_NAME)
        ka == get_env_option_setting(e, KEEP_ALIVE_TIMEOUT_OPTION_NAME)
    IN  IF pp[1] = "Err" THEN pp
        ELSE IF cp[1] = "Err" THEN cp
        ELSE IF lo[1] = "Err" THEN lo
        ELSE IF rt[1] = "Err" THEN rt
        ELSE IF ka[1] = "Err" THEN ka
        ELSE << "Ok", [ polling_period |-> pp[2],
                        aws_credentials_provider |-> cp[2],
                        listen_on |-> lo[2],
                        read_timeout |-> rt[2],
                        keep_alive_timeout |-> ka[2] ] >>

\* EnvConfig::listen_on()
listen_on(config) == config.listen_on

\* one call of EnvConfig::new()
ConfigNew ==
    /\ IsNone(env_config)
    /\ \E e \in Environments :
          /\ environ' = Some(e)
          /\ env_config' = Some(EnvConfig_new(e))
    /\ UNCHANGED << probe_err, classified, settings, constructed, tagged, labelled,
                    iterVars, pollVars, runVars >>

ConfigInit ==
    /\ kind = "instances"
    /\ IterIdle
    /\ PollIdle
    /\ RunIdle
    /\ StartIdle

SpecConfig == ConfigInit /\ [][ConfigNew]_vars

\* the option is not set, or set to a value that parses
UnsetOrValid(e, name) ==
    \/ e[name] = NotPresent
    \/ (e[name][1] = "Ok" /\ from_str(name, e[name][2])[1] = "Ok")

\* C20 (EnvConfig required option) as stated: new() returns
\* Err(OptionNotFound(name)) when the listen-address variable is unset,
\* Err(BadOptionValue(name, value)) when it is set and does not parse, and Ok
\* with listen_on() equal to the parsed address when it is valid.
RequiredListenOn ==
    IsSome(env_config) =>
        LET e == Unwrap(environ)
            res == Unwrap(env_config)
            lo == e[LISTEN_ON_OPTION_NAME]
        IN  /\ lo = NotPresent =>
                 (res[1] = "Err" /\ res[2] = OptionNotFound(LISTEN_ON_OPTION_NAME))
            /\ (lo[1] = "Ok" /\ SocketAddr_from_str(lo[2])[1] = "Err") =>
                 (res[1] = "Err" /\ res[2] = BadOptionValue(LISTEN_ON_OPTION_NAME, lo[2]))
            /\ (lo[1] = "Ok" /\ SocketAddr_from_str(lo[2])[1] = "Ok") =>
                 (res[1] = "Ok" /\ listen_on(res[2]) = SocketAddr_from_str(lo[2])[2])

\* C20 (EnvConfig required option) amended: the three outcomes hold when the
\* polling-period and credentials-provider variables, which are read first,
\* are unset or valid, and Ok also needs the two timeout variables to be
\* unset or valid; whenever new() returns Ok, listen_on() is the parsed
\* address.
RequiredListenOnInOrder ==
    IsSome(env_config) =>
        LET e == Unwrap(environ)
            res == Unwrap(env_config)
            lo == e[LISTEN_ON_OPTION_NAME]
            first == /\ UnsetOrValid(e, POLLING_PERIOD_OPTION_NAME)
                     /\ UnsetOrValid(e, AWS_CREDENTIALS_PROVIDER_OPTION_NAME)
            rest == /\ UnsetOrValid(e, READ_TIMEOUT_OPTION_NAME)
                    /\ UnsetOrValid(e, KEEP_ALIVE_TIMEOUT_OPTION_NAME)
        IN  /\ (first /\ lo = NotPresent) =>
                 (res[1] = "Err" /\ res[2] = OptionNotFound(LISTEN_ON_OPTION_NAME))
            /\ (first /\ lo[1] = "Ok" /\ SocketAddr_from_str(lo[2])[1] = "Err") =>
                 (res[1] = "Err" /\ res[2] = BadOptionValue(LISTEN_ON_OPTION_NAME, lo[2]))
            /\ (first /\ rest /\ lo[1] = "Ok" /\ SocketAddr_from_str(lo[2])[1] = "Ok") =>
                 (res[1] = "Ok" /\ listen_on(res[2]) = SocketAddr_from_str(lo[2])[2])
            /\ res[1] = "Ok" =>
                 (lo[1] = "Ok" /\ << "Ok", listen_on(res[2]) >> = SocketAddr_from_str(lo[2]))

RequiredListenOnInOrderWitness ==
    /\ IsSome(env_config)
    /\ Unwrap(environ)[POLLING_PERIOD_OPTION_NAME] = VarOk(<< "6", "0" >>)
    /\ Unwrap(environ)[AWS_CREDENTIALS_PROVIDER_OPTION_NAME] = NotPresent
    /\ Unwrap(environ)[LISTEN_ON_OPTION_NAME] = NotPresent
    /\ Unwrap(environ)[READ_TIMEOUT_OPTION_NAME] = VarOk(<< "d", "a", "s" >>)
    /\ Unwrap(env_config) = << "Err", OptionNotFound(LISTEN_ON_OPTION_NAME) >>

\* Duration::from_secs
Duration_from_secs(s) == [secs |-> s, nanos |-> 0]

\* Option::map(|s| Duration::from_secs(s))
map_from_secs(o) == IF IsSome(o) THEN Some(Duration_from_secs(Unwrap(o))) ELSE None

\* EnvConfig::polling_period(), read_timeout(), keep_alive_timeout()
polling_period(config) == map_from_secs(config.polling_period)
read_timeout(config) == map_from_secs(config.read_timeout)
keep_alive_timeout(config) == map_from_secs(config.keep_alive_timeout)

\* AwsCredentialsProvider::default()
AwsCredentialsProvider_default == "Environment"

\* EnvConfig::aws_credentials_provider()
aws_credentials_provider(config) ==
    unwrap_or(config.aws_credentials_provider, AwsCredentialsProvider_default)

\* the options of EnvConfig in the order EnvConfig::new() reads them
FieldOrder ==
    << POLLING_PERIOD_OPTION_NAME, AWS_CREDENTIALS_PROVIDER_OPTION_NAME,
       LISTEN_ON_OPTION_NAME, READ_TIMEOUT_OPTION_NAME, KEEP_ALIVE_TIMEOUT_OPTION_NAME >>

OptionalNames == OptionNames \ {LISTEN_ON_OPTION_NAME}

TimeoutNames == OptionalNames \ {AWS_CREDENTIALS_PROVIDER_OPTION_NAME}

\* the field of the EnvConfig that holds the option
FieldOf(config, name) ==
    CASE name = POLLING_PERIOD_OPTION_NAME -> config.polling_period
      [] name = AWS_CREDENTIALS_PROVIDER_OPTION_NAME -> config.aws_credentials_provider
      [] name = READ_TIMEOUT_OPTION_NAME -> config.read_timeout
      [] name = KEEP_ALIVE_TIMEOUT_OPTION_NAME -> config.keep_alive_timeout

\* the accessor of a timeout option
TimeoutOf(config, name) ==
    CASE name = POLLING_PERIOD_OPTION_NAME -> polling_period(config)
      [] name = READ_TIMEOUT_OPTION_NAME -> read_timeout(config)
      [] name = KEEP_ALIVE_TIMEOUT_OPTION_NAME -> keep_alive_timeout(config)

\* the variable is set to a Unicode value
IsSet(e, name) == e[name][1] = "Ok"

\* the variable does not make EnvConfig::new() fail
Passes(e, name) ==
    IF name = LISTEN_ON_OPTION_NAME
    THEN IsSet(e, name) /\ from_str(name, e[name][2])[1] = "Ok"
    ELSE UnsetOrValid(e, name)

\* the variables read before `name` / all other variables let new() go on
EarlierPass(e, name) ==
    \A i \in DOMAIN FieldOrder :
        (\E j \in DOMAIN FieldOrder : j > i /\ FieldOrder[j] = name) => Passes(e, FieldOrder[i])
OthersPass(e, name) == \A m \in OptionNames \ {name} : Passes(e, m)

\* C21 (EnvConfig optional options) as stated: for each optional variable,
\* unset makes new() succeed with the setting None, a set value that does not
\* parse makes new() fail with BadOptionValue(name, value), a valid value v is
\* exposed as Some, and OptionNotFound is never reported for it.
OptionalSettings ==
    IsSome(env_config) =>
        LET e == Unwrap(environ)
            res == Unwrap(env_config)
        IN  \A n \in OptionalNames :
              /\ e[n] = NotPresent => (res[1] = "Ok" /\ FieldOf(res[2], n) = None)
              /\ (IsSet(e, n) /\ from_str(n, e[n][2])[1] = "Err") =>
                     res = << "Err", BadOptionValue(n, e[n][2]) >>
              /\ (IsSet(e, n) /\ from_str(n, e[n][2])[1] = "Ok") =>
                     (res[1] = "Ok" /\ FieldOf(res[2], n) = Some(from_str(n, e[n][2])[2]))
              /\ res # << "Err", OptionNotFound(n) >>

\* C21 (EnvConfig optional options) amended: the variables are read in the
\* order of the fields and the first error is returned.  For an optional
\* variable n: when every other variable lets new() go on (the listen address
\* set and valid, the other optional ones unset or valid), n unset gives Ok
\* with the setting None and n = v valid gives Ok with the setting Some(v), a
\* timeout being exposed as Some(v seconds) and the provider as itself
\* (Environment when unset); when the variables read before n let new() go on,
\* a value of n that does not parse gives BadOptionValue(n, value); and
\* OptionNotFound(n) is never returned.
OptionalSettingsInOrder ==
    IsSome(env_config) =>
        LET e == Unwrap(environ)
            res == Unwrap(env_config)
        IN  \A n \in OptionalNames :
              /\ (OthersPass(e, n) /\ e[n] = NotPresent) =>
                     /\ res[1] = "Ok"
                     /\ FieldOf(res[2], n) = None
                     /\ n \in TimeoutNames => TimeoutOf(res[2], n) = None
                     /\ n \notin TimeoutNames =>
                            aws_credentials_provider(res[2]) = AwsCredentialsProvider_default
              /\ (EarlierPass(e, n) /\ IsSet(e, n) /\ from_str(n, e[n][2])[1] = "Err") =>
                     res = << "Err", BadOptionValue(n, e[n][2]) >>
              /\ (OthersPass(e, n) /\ IsSet(e, n) /\ from_str(n, e[n][2])[1] = "Ok") =>
                     /\ res[1] = "Ok"
                     /\ FieldOf(res[2], n) = Some(from_str(n, e[n][2])[2])
                     /\ n \in TimeoutNames =>
                            TimeoutOf(res[2], n) = Some(Duration_from_secs(Decimal(e[n][2])))
                     /\ n \notin TimeoutNames =>
                            aws_credentials_provider(res[2]) = e[n][2][1]
              /\ res # << "Err", OptionNotFound(n) >>

OptionalSettingsInOrderWitness ==
    /\ IsSome(env_config)
    /\ Unwrap(environ)[POLLING_PERIOD_OPTION_NAME] = NotPresent
    /\ Unwrap(environ)[AWS_CREDENTIALS_PROVIDER_OPTION_NAME] = VarOk(<< "Profile" >>)
    /\ Unwrap(environ)[LISTEN_ON_OPTION_NAME] = VarOk(<< "127.0.0.1", ":", "8", "0" >>)
    /\ Unwrap(environ)[READ_TIMEOUT_OPTION_NAME] = VarOk(<< "6", "0" >>)
    /\ Unwrap(environ)[KEEP_ALIVE_TIMEOUT_OPTION_NAME] = NotPresent
    /\ Unwrap(env_config)[1] = "Ok"
    /\ read_timeout(Unwrap(env_config)[2]) = Some(Duration_from_secs(60))
    /\ keep_alive_timeout(Unwrap(env_config)[2]) = None
    /\ polling_period(Unwrap(env_config)[2]) = None
    /\ aws_credentials_provider(Unwrap(env_config)[2]) = "Profile"

====
